---- MODULE Spec2Model ----
(***************************************************************************)
(* The move tree of jackstenglein/chess: the History (src/src/History.ts)  *)
(* and the tree operations of the Chess facade (src/src/Chess.ts).         *)
(*                                                                         *)
(* JavaScript objects are modelled by a heap.  A Move is an index into     *)
(* `heap`; a Move[] array is an index into `arrays`, so that two fields    *)
(* may reference the same array (move.variation === history.moves) and an  *)
(* in-place push or splice is seen through every reference.  A Move[][]    *)
(* (move.variations) is a sequence of array indices: the code never shares *)
(* such an outer list between two moves.  Null (and undefined) is 0.       *)
(***************************************************************************)
EXTENDS Integers, Sequences, FiniteSets, TLC

\* Bounds of the model: the number of Move objects and of Move[] arrays
\* that a behaviour may allocate.
MaxMoves == 4
MaxArrays == 5

Null == 0

VARIABLES
    heap,          \* the Move objects ever created, by index
    arrays,        \* the Move[] arrays ever created, by index
    moves,         \* History.moves: the array that is the mainline
    setUpFen,      \* History.setUpFen
    setUpPly,      \* History.setUpPly
    currentMove,   \* Chess._currentMove
    disableNullMoves,  \* Chess.disableNullMoves
    pgn,           \* the PGN move text the game was loaded from, as tokens
    observers,     \* Chess.observers
    notified,      \* the handlers run by the last call, in the order they ran
    tags           \* Pgn.header.tags: the SetUp and FEN tags

vars ==
    <<heap, arrays, moves, setUpFen, setUpPly, currentMove, disableNullMoves, pgn,
      observers, notified, tags>>

----------------------------------------------------------------------------
(* The position oracle (chess.js), abstracted.  A position is the side to  *)
(* move, the fullmove number, the moves that led to it, and whether the    *)
(* side to move is in check and whether the game is over there; the legal  *)
(* moves of a position are the table's moves of the side to move, none     *)
(* when the game is over.  The kings stay on e1 and e8.                    *)

ChessJsMoves ==
    { [san |-> "e4", lan |-> "e2e4", from |-> "e2", to |-> "e4", color |-> "w"],
      [san |-> "d4", lan |-> "d2d4", from |-> "d2", to |-> "d4", color |-> "w"],
      [san |-> "c4", lan |-> "c2c4", from |-> "c2", to |-> "c4", color |-> "w"],
      [san |-> "e5", lan |-> "e7e5", from |-> "e7", to |-> "e5", color |-> "b"],
      [san |-> "d5", lan |-> "d7d5", from |-> "d7", to |-> "d5", color |-> "b"],
      [san |-> "c5", lan |-> "c7c5", from |-> "c7", to |-> "c5", color |-> "b"] }

Fen(turn, num, board) ==
    [turn |-> turn, num |-> num, board |-> board, check |-> FALSE, over |-> FALSE]

\* FEN.start
FenStart == Fen("w", 1, <<>>)

\* The tags of a PGN header that set the game up: the value of SetUp, ""
\* when the header has no such tag, and the FEN tag, as the set of its
\* value, empty when the header has none.
Tags(SetUp, FEN) == [SetUp |-> SetUp, FEN |-> FEN]

\* new Header({ tags: {} })
NoTags == Tags("", {})

\* Pgn.constructor without a PGN: the tags of a game set up from a FEN.
TagsOf(fen) == IF fen # FenStart THEN Tags("1", {fen}) ELSE NoTags

\* A CandidateMove: a string, or an object {from, to}.
StringCandidate(text) == [kind |-> "string", text |-> text, from |-> "", to |-> ""]
ObjectCandidate(from, to) == [kind |-> "object", text |-> "", from |-> from, to |-> to]

\* The inputs tried: two moves of each side by their SAN, the coordinate
\* spelling and the object form of one move, and a string that is no move
\* at all.
Candidates ==
    { StringCandidate(text) : text \in {"e4", "d4", "e5", "d5"} }
    \cup { StringCandidate("e2e4"), StringCandidate("xyz"), ObjectCandidate("e2", "e4") }

\* chess.move(notation, {strict}): the legal moves the notation denotes.
\* The permissive parser also accepts the coordinate spelling of a move.
ChessJsResolve(fen, notation, strict) ==
    { m \in ChessJsMoves :
        /\ ~fen.over
        /\ m.color = fen.turn
        /\ IF notation.kind = "string"
           THEN m.san = notation.text \/ (~strict /\ m.lan = notation.text)
           ELSE m.from = notation.from /\ m.to = notation.to }

\* nullMoveNotation
nullMoveNotation == "Z0"

\* The square of the king of a side.
KingSquare(color) == IF color = "w" THEN "e1" ELSE "e8"

OtherColor(color) == IF color = "w" THEN "b" ELSE "w"

\* isNullMove: the Z0 notation, or the king of the side to move onto the
\* king of the other side.
isNullMove(candidate, fen) ==
    IF candidate.kind = "string" THEN candidate.text = nullMoveNotation
    ELSE /\ candidate.from = KingSquare(fen.turn)
         /\ candidate.to = KingSquare(OtherColor(fen.turn))

\* A getNullMove that forgets the position: a null move whenever null moves
\* are not disabled.
getNullMoveAnywhere(fen, disable) ==
    IF disable THEN {}
    ELSE { [san |-> "Z0", lan |-> "Z0",
            from |-> IF fen.turn = "w" THEN "e1" ELSE "e8",
            to |-> IF fen.turn = "w" THEN "e8" ELSE "e1",
            color |-> fen.turn] }

\* getNullMove: the null move of the position, none when null moves are
\* disabled, when it is check or when the game is over.
getNullMove(fen, disable) ==
    IF disable THEN {}
    ELSE IF fen.check \/ fen.over THEN {}
    ELSE { [san |-> nullMoveNotation, lan |-> nullMoveNotation,
            from |-> KingSquare(fen.turn), to |-> KingSquare(OtherColor(fen.turn)),
            color |-> fen.turn] }

\* The position after a move.  After a null move it is switchTurn(before):
\* the same position with the other side to move.
FenAfter(fen, m) ==
    IF m.san = nullMoveNotation
    THEN Fen(OtherColor(fen.turn), fen.num, Append(fen.board, m.san))
    ELSE Fen(OtherColor(fen.turn),
             IF fen.turn = "b" THEN fen.num + 1 ELSE fen.num,
             Append(fen.board, m.san))

\* A set-up ply that takes white to be the side to move.
SetUpPlyOfWhite(fen) == 2 * fen.num - 1

\* History.constructor: the ply of the first move from the set-up position.
SetUpPlyOf(fen) == IF fen.turn = "w" THEN 2 * fen.num - 1 ELSE 2 * fen.num

----------------------------------------------------------------------------
(* The machine state threaded through a call: the objects, and what the    *)
(* call gives back to its caller.  `events` are the events published so    *)
(* far by the call, `ret` is the value returned and `threw` is set when    *)
(* the call ends by an exception.                                          *)

State(h, a, m, c) ==
    [heap |-> h, arrays |-> a, moves |-> m, currentMove |-> c, events |-> <<>>,
     seen |-> <<>>, ret |-> Null, threw |-> FALSE]

Event(type, move, previousMove, mainlineMove) ==
    [type |-> type, move |-> move, previousMove |-> previousMove,
     mainlineMove |-> mainlineMove, variantRoot |-> Null, variantParent |-> Null]

PromoteEvent(move, variantRoot, variantParent) ==
    [type |-> "PromoteVariation", move |-> move, previousMove |-> Null,
     mainlineMove |-> Null, variantRoot |-> variantRoot, variantParent |-> variantParent]

\* publishEvent: the event is delivered before the call goes on; `seen` is
\* what currentMove() returns to a handler that runs for it.
publishEvent(s, e) ==
    [s EXCEPT !.events = Append(@, e), !.seen = Append(@, s.currentMove)]

\* An Observer: its identity, its types and what its handler does: it
\* takes note of the event, or it also unsubscribes itself.
Observer(id, types, handler) == [id |-> id, types |-> types, handler |-> handler]

\* addObserver: this.observers.push(observer)
addObserver(list, observer) == Append(list, observer)

\* A removeObserver that takes out the first entry only.
removeObserverOnce(list, observer) ==
    IF \E i \in 1..Len(list) : list[i] = observer
    THEN LET i == CHOOSE i \in 1..Len(list) :
                      list[i] = observer /\ \A j \in 1..(i - 1) : list[j] # observer
         IN  SubSeq(list, 1, i - 1) \o SubSeq(list, i + 1, Len(list))
    ELSE list

\* removeObserver: this.observers.filter((o) => o !== observer)
removeObserver(list, observer) == SelectSeq(list, LAMBDA o : o # observer)

\* observer.handler(event), run while d.observers is this.observers.
Handle(d, observer, e) ==
    [observers |-> IF observer.handler = "unsubscribe"
                   THEN removeObserver(d.observers, observer) ELSE d.observers,
     notified |-> Append(d.notified, [observer |-> observer.id, event |-> e])]

\* The loop of the function publishEvent over the array it was given, from
\* its i-th entry on.  An observer unsubscribed by a handler leaves
\* this.observers, not the array of the loop.
RECURSIVE Publish(_, _, _, _)
Publish(d, list, i, e) ==
    IF i > Len(list) THEN d
    ELSE IF e.type \in list[i].types
    THEN Publish(Handle(d, list[i], e), list, i + 1, e)
    ELSE Publish(d, list, i + 1, e)

\* The events of a call delivered one after the other.
RECURSIVE Deliver(_, _)
Deliver(d, events) ==
    IF events = <<>> THEN d
    ELSE Deliver(Publish(d, d.observers, 1, Head(events)), Tail(events))

\* The observers and the handlers run after a call that published the
\* events.
Delivered(events) ==
    LET d == Deliver([observers |-> observers, notified |-> <<>>], events)
    IN  /\ observers' = d.observers
        /\ notified' = d.notified

Return(s, v) == [s EXCEPT !.ret = v]
Throw(s) == [s EXCEPT !.threw = TRUE, !.ret = Null]

\* Chess.firstMove
firstMove(s) ==
    IF Len(s.arrays[s.moves]) > 0 THEN s.arrays[s.moves][1] ELSE Null

\* Chess.nextMove
nextMove(s, move) ==
    IF move = Null THEN firstMove(s) ELSE s.heap[move].next

\* Chess.seek: publishes LegalMove, then sets the current move.
seek(s, move) ==
    LET s1 == publishEvent(s, Event("LegalMove", move, s.currentMove, Null))
    IN  Return([s1 EXCEPT !.currentMove = move], move)

\* Chess.candidateMatches
candidateMatches(s, candidate, move) ==
    IF move = Null THEN FALSE
    ELSE IF candidate.kind = "string" THEN s.heap[move].san = candidate.text
    ELSE s.heap[move].from = candidate.from /\ s.heap[move].to = candidate.to

\* Chess.getVariation: the first variation of the continuation whose first
\* move matches the candidate.
getVariation(s, candidate, move) ==
    LET nm == nextMove(s, move) IN
    IF nm = Null THEN Null
    ELSE LET vs == s.heap[nm].variations
             hits == { i \in 1..Len(vs) :
                         /\ Len(s.arrays[vs[i]]) > 0
                         /\ candidateMatches(s, candidate, s.arrays[vs[i]][1]) }
         IN  IF hits = {} THEN Null
             ELSE s.arrays[vs[CHOOSE i \in hits : \A j \in hits : i <= j]][1]

\* Chess.isInMainline
isInMainline(s, move) ==
    IF move = Null THEN TRUE ELSE s.heap[move].variation = s.moves

----------------------------------------------------------------------------
(* History.validateMove and History.addMove                                *)

\* A move as the PGN parser gives it: its notation, its NAGs, the comment
\* before it and the comment after it, the arrows and fields of its
\* annotation commands, its clock (none, until the parser reads one), and
\* the variations that follow it.
PgnMove(notation, nags, commentMove, commentAfter, colorArrows, colorFields, variations) ==
    [notation |-> notation, nags |-> nags, commentMove |-> commentMove,
     commentAfter |-> commentAfter, colorArrows |-> colorArrows,
     colorFields |-> colorFields, clk |-> <<>>, variations |-> variations]

\* {} as PgnMove: the move was not read from a PGN.
NoPgnMove == PgnMove("", <<>>, "", "", <<>>, <<>>, <<>>)

\* History.getMove: a new Move object; `variation` is left undefined.
getMove(ply, pgnMove, chessJsMove, before) ==
    [san |-> chessJsMove.san, from |-> chessJsMove.from, to |-> chessJsMove.to,
     color |-> chessJsMove.color, before |-> before,
     fen |-> FenAfter(before, chessJsMove), ply |-> ply,
     previous |-> Null, next |-> Null, variation |-> Null, variations |-> <<>>,
     nags |-> pgnMove.nags, commentMove |-> pgnMove.commentMove,
     commentAfter |-> pgnMove.commentAfter, colorArrows |-> pgnMove.colorArrows,
     colorFields |-> pgnMove.colorFields, clk |-> pgnMove.clk]

\* A validateMove that keeps the move it made at the end of the mainline.
HistoryValidateMoveKeeping(s, notation, previous, strict, disable, sFen, sPly) ==
    LET fen == IF previous # Null THEN s.heap[previous].fen ELSE sFen
        found == IF isNullMove(notation, fen) THEN getNullMove(fen, disable)
                 ELSE ChessJsResolve(fen, notation, strict)
    IN  IF found = {} THEN Return(s, Null)
        ELSE LET m == getMove(IF previous # Null THEN s.heap[previous].ply + 1 ELSE sPly,
                              NoPgnMove, CHOOSE x \in found : TRUE, fen)
             IN  Return([s EXCEPT !.heap = Append(@, m),
                                  !.arrays[s.moves] = Append(@, Len(s.heap) + 1)],
                        Len(s.heap) + 1)

\* A validateMove that numbers every move from the set-up ply.
HistoryValidateMoveFromSetUp(s, notation, previous, strict, disable, sFen, sPly) ==
    LET fen == IF previous # Null THEN s.heap[previous].fen ELSE sFen
        found == IF isNullMove(notation, fen) THEN getNullMove(fen, disable)
                 ELSE ChessJsResolve(fen, notation, strict)
    IN  IF found = {} THEN Return(s, Null)
        ELSE Return([s EXCEPT !.heap = Append(@, getMove(sPly, NoPgnMove,
                                                         CHOOSE x \in found : TRUE, fen))],
                    Len(s.heap) + 1)

\* History.validateMove: returns a new detached Move, or null.
HistoryValidateMove(s, notation, previous, strict, disable, sFen, sPly) ==
    LET fen == IF previous # Null THEN s.heap[previous].fen ELSE sFen
        found == IF isNullMove(notation, fen) THEN getNullMove(fen, disable)
                 ELSE ChessJsResolve(fen, notation, strict)
    IN  IF found = {} THEN Return(s, Null)
        ELSE LET m == getMove(IF previous # Null THEN s.heap[previous].ply + 1 ELSE sPly,
                              NoPgnMove, CHOOSE x \in found : TRUE, fen)
             IN  Return([s EXCEPT !.heap = Append(@, m)], Len(s.heap) + 1)

\* A pushVariation that lists the new variation in the move before the
\* host, when there is one.
pushVariationOfPrevious(v, host, move) ==
    LET P == IF v.heap[host].previous # Null THEN v.heap[host].previous ELSE host
    IN  [v EXCEPT !.arrays = Append(@, <<move>>),
                  !.heap[P].variations = Append(@, Len(v.arrays) + 1),
                  !.heap[move].variation = Len(v.arrays) + 1]

\* host.variations.push([]); move.variation = that array; move.variation.push(move)
pushVariation(v, host, move) ==
    [v EXCEPT !.arrays = Append(@, <<move>>),
              !.heap[host].variations = Append(@, Len(v.arrays) + 1),
              !.heap[move].variation = Len(v.arrays) + 1]

\* History.addMove: throws when the move is not valid.
HistoryAddMove(s, notation, previous, strict, disable, sFen, sPly) ==
    LET v == HistoryValidateMove(s, notation, previous, strict, disable, sFen, sPly)
        move == v.ret
        linked == [v EXCEPT !.heap[move].previous = previous]
    IN  IF move = Null THEN Throw(v)
        ELSE IF previous # Null /\ v.heap[previous].next # Null THEN
            Return(pushVariation(linked, v.heap[previous].next, move), move)
        ELSE IF previous # Null THEN
            LET line == v.heap[previous].variation IN
            Return([linked EXCEPT !.heap[previous].next = move,
                                  !.heap[move].variation = line,
                                  !.arrays[line] = Append(@, move)], move)
        ELSE IF Len(v.arrays[v.moves]) > 0 THEN
            Return(pushVariation(linked, v.arrays[v.moves][1], move), move)
        ELSE
            Return([linked EXCEPT !.heap[move].variation = v.moves,
                                  !.arrays[v.moves] = Append(@, move)], move)

----------------------------------------------------------------------------
(* Chess.move                                                              *)

\* The try block of Chess.move without its catch: the error of addMove
\* reaches the caller.
ChessMoveAddUncaught(s, candidate, previousMove, strict, disable, skipSeek, sFen, sPly) ==
    LET a == HistoryAddMove(s, candidate, previousMove, strict, disable,
                            sFen, sPly) IN
    IF a.threw \/ skipSeek THEN a
    ELSE seek(publishEvent(a, Event("NewVariation", a.ret, previousMove, Null)), a.ret)

\* Chess.move, the move does not exist yet (the try/catch of lines 981-1003)
ChessMoveAdd(s, candidate, previousMove, strict, disable, skipSeek, sFen, sPly) ==
    LET a == HistoryAddMove(s, candidate, previousMove, strict, disable,
                            sFen, sPly) IN
    IF a.threw THEN
        \* caught: the IllegalMove event is published and null returned
        Return([publishEvent(a, Event("IllegalMove", Null, previousMove, Null))
                   EXCEPT !.threw = FALSE], Null)
    ELSE IF skipSeek THEN a
    ELSE seek(publishEvent(a, Event("NewVariation", a.ret, previousMove, Null)), a.ret)

\* Chess.move
ChessMove(s, candidate, previousMove, strict, disable, existingOnly, skipSeek, sFen, sPly) ==
    LET nm == nextMove(s, previousMove)
        existingVariant == getVariation(s, candidate, previousMove)
    IN  IF candidateMatches(s, candidate, nm) THEN
            IF skipSeek THEN Return(s, nm)
            ELSE seek(publishEvent(s, Event("LegalMove", nm, previousMove, Null)), nm)
        ELSE IF existingVariant # Null THEN
            IF skipSeek THEN Return(s, existingVariant)
            ELSE seek(publishEvent(s, Event("LegalMove", existingVariant, previousMove, Null)),
                      existingVariant)
        ELSE IF existingOnly THEN Return(s, Null)
        ELSE ChessMoveAdd(s, candidate, previousMove, strict, disable, skipSeek,
                          sFen, sPly)

----------------------------------------------------------------------------
(* Chess.isDescendant and Chess.delete                                     *)

Min(a, b) == IF a < b THEN a ELSE b
Max(a, b) == IF a > b THEN a ELSE b

\* Array.prototype.findIndex as a 0-based index, -1 when nothing matches.
FirstIndex(hits) ==
    IF hits = {} THEN -1 ELSE (CHOOSE i \in hits : \A j \in hits : i <= j) - 1

\* Array.prototype.splice(start): the 0-based position where the cut is
\* made; a negative start counts from the end of the array.
SpliceStart(len, start) ==
    IF start < 0 THEN Max(len + start, 0) ELSE Min(start, len)

\* this.isInMainline(line[0]): on an empty array the argument is undefined,
\* so the default parameter applies and the current move is tested.
isInMainlineHead(s, line) ==
    IF Len(s.arrays[line]) = 0 THEN isInMainline(s, s.currentMove)
    ELSE isInMainline(s, s.arrays[line][1])

\* The do-while loop of isDescendant.  "throw" is the TypeError of reading
\* moveRoot[0].previous on an empty array.
RECURSIVE isDescendantLoop(_, _, _, _)
isDescendantLoop(s, parentRoot, moveRoot, fuel) ==
    IF moveRoot = parentRoot THEN "true"
    ELSE IF Len(s.arrays[moveRoot]) = 0 THEN "throw"
    ELSE IF fuel = 0 THEN "diverge"
    ELSE LET p == s.heap[s.arrays[moveRoot][1]].previous
             up == IF p = Null THEN Null ELSE s.heap[p].variation
         IN  IF up = Null THEN "false"
             ELSE IF isInMainlineHead(s, up) THEN "false"
             ELSE isDescendantLoop(s, parentRoot, up, fuel - 1)

\* Chess.isDescendant: "true", "false" or "throw".
isDescendant(s, parent, move) ==
    IF move = Null THEN "false"
    ELSE IF parent = move THEN "true"
    ELSE IF s.heap[move].ply < s.heap[parent].ply THEN "false"
    ELSE IF isInMainline(s, parent) THEN "true"
    ELSE IF isInMainline(s, move) THEN "false"
    ELSE isDescendantLoop(s, s.heap[parent].variation, s.heap[move].variation,
                          Len(s.arrays) + 1)

\* Chess.delete, up to the relinking of the tree (lines 1040-1063).
\* The result carries the mainlineMove computed by the code in `ret`.
DeleteRelink(s, move) ==
    LET arr == s.heap[move].variation
        line == s.arrays[arr]
        index == FirstIndex({ i \in 1..Len(line) : s.heap[line[i]].ply = s.heap[move].ply })
        s1 == [s EXCEPT !.arrays[arr] = SubSeq(line, 1, SpliceStart(Len(line), index))]
        prev == s.heap[move].previous
        mainlineMove == IF prev # Null THEN s1.heap[prev].next ELSE firstMove(s1)
        vs == s.heap[move].variations
    IN  IF mainlineMove = move THEN
            IF prev # Null THEN
                IF Len(vs) > 0 THEN
                    IF Len(s1.arrays[vs[1]]) = 0
                    THEN Throw([s1 EXCEPT !.heap[prev].next = Null])
                    ELSE LET n == s1.arrays[vs[1]][1]
                             pline == s1.heap[prev].variation
                         IN  Return([s1 EXCEPT
                                 !.heap[prev].next = n,
                                 !.arrays[pline] = @ \o s1.arrays[s1.heap[n].variation],
                                 !.heap[n].variation = pline,
                                 !.heap[n].variations = Tail(vs)], mainlineMove)
                ELSE Return([s1 EXCEPT !.heap[prev].next = Null], mainlineMove)
            ELSE IF Len(vs) > 0 THEN
                IF Len(s1.arrays[vs[1]]) = 0 THEN Throw(s1)
                ELSE LET n == s1.arrays[vs[1]][1]
                     IN  Return([s1 EXCEPT !.moves = s1.heap[n].variation,
                                           !.heap[n].variations = Tail(vs)], mainlineMove)
            ELSE Return(s1, mainlineMove)
        ELSE IF index = 0 /\ mainlineMove # Null THEN
            Return([s1 EXCEPT !.heap[mainlineMove].variations =
                        SelectSeq(@, LAMBDA v : Len(s1.arrays[v]) > 0)], mainlineMove)
        ELSE Return(s1, mainlineMove)

\* Chess.delete
ChessDelete(s, move) ==
    IF move = Null THEN s
    ELSE LET r == DeleteRelink(s, move)
             d == isDescendant(r, move, r.currentMove)
             prev == s.heap[move].previous
         IN  IF r.threw THEN r
             ELSE IF d \in {"throw", "diverge"} THEN Throw(r)
             ELSE Return(publishEvent(IF d = "true" THEN seek(r, prev) ELSE r,
                                      Event("DeleteMove", move, prev, r.ret)), Null)

----------------------------------------------------------------------------
(* Chess.getVariantParent, Chess.canPromoteVariation, Chess.promoteVariation *)

\* The result of a helper that ended by a TypeError.
Thrown == -1

\* Chess.getVariantParent
getVariantParent(s, move) ==
    IF move = Null THEN Null
    ELSE IF isInMainline(s, move) THEN Null
    ELSE LET v == s.heap[move].variation IN
         IF v = Null \/ Len(s.arrays[v]) = 0 THEN Thrown
         ELSE LET variantRoot == s.arrays[v][1] IN
              IF s.heap[variantRoot].previous = Null THEN firstMove(s)
              ELSE s.heap[s.heap[variantRoot].previous].next

\* variantParent.variations.findIndex((v) => v[0] === variantRoot)
VariantIndex(s, variantParent, variantRoot) ==
    LET vs == s.heap[variantParent].variations
    IN  FirstIndex({ i \in 1..Len(vs) :
                       Len(s.arrays[vs[i]]) > 0 /\ s.arrays[vs[i]][1] = variantRoot })

\* Chess.canPromoteVariation: "true", "false" or "throw".
canPromoteVariation(s, move, intoMainline) ==
    LET variantParent == getVariantParent(s, move) IN
    IF variantParent = Thrown THEN "throw"
    ELSE IF variantParent = Null THEN "false"
    ELSE IF intoMainline THEN "true"
    ELSE IF ~isInMainline(s, variantParent) THEN "true"
    ELSE IF VariantIndex(s, variantParent, s.arrays[s.heap[move].variation][1]) >= 1
    THEN "true" ELSE "false"

\* for (i = variantRoot.variation.length - 1; i >= 0; i--)
\*     variantRoot.variation[i].variation = variantRoot.previous.variation
RECURSIVE FixRootVariation(_, _, _)
FixRootVariation(s, variantRoot, i) ==
    IF i < 0 \/ s.threw THEN s
    ELSE LET line == s.arrays[s.heap[variantRoot].variation] IN
         IF i + 1 > Len(line) THEN Throw(s)
         ELSE FixRootVariation(
                  [s EXCEPT !.heap[line[i + 1]].variation =
                                s.heap[s.heap[variantRoot].previous].variation],
                  variantRoot, i - 1)

\* for (const m of variantParent.variation) m.variation = variantParent.variation
RECURSIVE FixParentVariation(_, _, _, _)
FixParentVariation(s, variantParent, line, k) ==
    IF k > Len(line) THEN s
    ELSE FixParentVariation(
             [s EXCEPT !.heap[line[k]].variation = s.heap[variantParent].variation],
             variantParent, line, k + 1)

RemoveAt(seq, i) == SubSeq(seq, 1, i - 1) \o SubSeq(seq, i + 1, Len(seq))

\* variantParent.variation = parentVariation.splice(parentIndex)
PromoteSplice(s, variantParent, parentVariation) ==
    LET pline == s.arrays[parentVariation]
        parentIndex == FirstIndex({ i \in 1..Len(pline) : pline[i] = variantParent })
        cut == SpliceStart(Len(pline), parentIndex)
    IN  [s EXCEPT !.arrays = Append([@ EXCEPT ![parentVariation] = SubSeq(pline, 1, cut)],
                                    SubSeq(pline, cut + 1, Len(pline))),
                  !.heap[variantParent].variation = Len(s.arrays) + 1]

\* "Fix variation and next for previous moves" (lines 1160-1165)
PromoteLink(s, move, variantRoot, parentVariation) ==
    LET prev == s.heap[variantRoot].previous IN
    IF prev # Null
    THEN [s EXCEPT !.heap[prev].next = variantRoot,
                   !.arrays[parentVariation] = @ \o s.arrays[s.heap[move].variation]]
    ELSE [s EXCEPT !.moves = s.heap[variantRoot].variation]

\* "Fix variations field for both variations" (lines 1168-1173)
PromoteVariations(s, variantRoot, variantParent, variantIndex) ==
    [s EXCEPT !.heap[variantRoot].variations =
                  <<s.heap[variantParent].variation>>
                  \o RemoveAt(s.heap[variantParent].variations, variantIndex + 1),
              !.heap[variantParent].variations = <<>>]

\* "Fix variation field for both variations", the promoted line (lines 1176-1180)
PromoteFixRoot(s, variantRoot) ==
    IF s.heap[variantRoot].previous # Null
    THEN FixRootVariation(s, variantRoot, Len(s.arrays[s.heap[variantRoot].variation]) - 1)
    ELSE s

\* "Fix variation field for both variations", the displaced line (lines 1182-1184)
PromoteFixParent(s, variantParent) ==
    IF s.threw THEN s
    ELSE FixParentVariation(s, variantParent, s.arrays[s.heap[variantParent].variation], 1)

\* An adjacent swap in the wrong direction: with the entry that follows.
PromoteSwapFollowing(s, variantParent, variantIndex) ==
    LET vs == s.heap[variantParent].variations
    IN  IF variantIndex + 2 > Len(vs) THEN s
        ELSE [s EXCEPT !.heap[variantParent].variations =
                           [vs EXCEPT ![variantIndex + 1] = vs[variantIndex + 2],
                                      ![variantIndex + 2] = vs[variantIndex + 1]]]

\* The adjacent swap of the else branch (lines 1186-1188)
PromoteSwap(s, variantParent, variantIndex) ==
    LET vs == s.heap[variantParent].variations
    IN  [s EXCEPT !.heap[variantParent].variations =
                      [vs EXCEPT ![variantIndex] = vs[variantIndex + 1],
                                 ![variantIndex + 1] = vs[variantIndex]]]

\* One pass of the do-while body (lines 1151-1189) once variantIndex >= 0.
PromoteStep(s, move, intoMainline, variantRoot, variantParent, variantIndex) ==
    IF intoMainline \/ variantIndex = 0 THEN
        PromoteFixParent(
            PromoteFixRoot(
                PromoteVariations(
                    PromoteLink(
                        PromoteSplice(s, variantParent, s.heap[variantParent].variation),
                        move, variantRoot, s.heap[variantParent].variation),
                    variantRoot, variantParent, variantIndex),
                variantRoot),
            variantParent)
    ELSE PromoteSwap(s, variantParent, variantIndex)

\* nextVariantRoot = variantRoot.previous?.variation[0]
NextVariantRoot(s, variantRoot) ==
    LET prev == s.heap[variantRoot].previous
        up == IF prev = Null THEN Null ELSE s.heap[prev].variation
    IN  IF up = Null THEN Null
        ELSE IF Len(s.arrays[up]) = 0 THEN Null ELSE s.arrays[up][1]

\* The loop condition of promoteVariation (line 1193): "again", "stop" or "throw".
\* An undefined nextVariantRoot makes getVariantParent take its default
\* parameter, the current move.
PromoteAgain(s, intoMainline, nextVariantRoot) ==
    IF nextVariantRoot = Null
    THEN IF getVariantParent(s, s.currentMove) = Thrown THEN "throw" ELSE "stop"
    ELSE IF getVariantParent(s, nextVariantRoot) = Thrown THEN "throw"
    ELSE IF intoMainline
            /\ getVariantParent(s, nextVariantRoot) # Null
            /\ ~isInMainline(s, nextVariantRoot)
    THEN "again" ELSE "stop"

\* The do-while loop of promoteVariation, then the PromoteVariation event.
RECURSIVE PromoteLoop(_, _, _, _, _, _)

\* After one pass: go round again, stop and publish, or end by the exception.
PromoteNext(s, move, intoMainline, variantRoot, variantParent, fuel) ==
    IF s.threw THEN s
    ELSE LET again == PromoteAgain(s, intoMainline, NextVariantRoot(s, variantRoot)) IN
         IF again = "throw" \/ (again = "again" /\ fuel = 0) THEN Throw(s)
         ELSE IF again = "again"
         THEN PromoteLoop(s, move, intoMainline, NextVariantRoot(s, variantRoot),
                          getVariantParent(s, NextVariantRoot(s, variantRoot)), fuel - 1)
         ELSE publishEvent(s, PromoteEvent(move, variantRoot, variantParent))

PromoteLoop(s, move, intoMainline, variantRoot, variantParent, fuel) ==
    IF VariantIndex(s, variantParent, variantRoot) < 0
    THEN publishEvent(s, PromoteEvent(move, variantRoot, variantParent))
    ELSE PromoteNext(PromoteStep(s, move, intoMainline, variantRoot, variantParent,
                                 VariantIndex(s, variantParent, variantRoot)),
                     move, intoMainline, variantRoot, variantParent, fuel)

\* A promoteVariation that does not ask canPromoteVariation.
ChessPromoteVariationUnasked(s, move, intoMainline) ==
    IF move = Null THEN s
    ELSE IF getVariantParent(s, move) = Thrown THEN Throw(s)
    ELSE IF getVariantParent(s, move) = Null THEN s
    ELSE PromoteLoop(s, move, intoMainline, s.arrays[s.heap[move].variation][1],
                     getVariantParent(s, move), Len(s.heap) + 1)

\* Chess.promoteVariation
ChessPromoteVariation(s, move, intoMainline) ==
    IF move = Null THEN s
    ELSE LET can == canPromoteVariation(s, move, intoMainline) IN
         IF can = "throw" THEN Throw(s)
         ELSE IF can = "false" THEN s
         ELSE LET variantRoot == s.arrays[s.heap[move].variation][1]
                  variantParent == getVariantParent(s, move)
              IN  IF variantParent = Null THEN s
                  ELSE PromoteLoop(s, move, intoMainline, variantRoot, variantParent,
                                   Len(s.heap) + 1)

\* Chess.validateMove
ChessValidateMove(s, candidate, previousMove, strict, disable, sFen, sPly) ==
    HistoryValidateMove(s, candidate, previousMove, strict, disable, sFen, sPly)

----------------------------------------------------------------------------
(* The moves of the tree: those a caller can get hold of from history()    *)
(* by following next and variations.                                       *)

RECURSIVE ReachFrom(_, _)
ReachFrom(s, seen) ==
    LET viaNext == { s.heap[m].next : m \in seen } \ {Null}
        viaVars == UNION { UNION { { s.arrays[s.heap[m].variations[i]][k] :
                                       k \in 1..Len(s.arrays[s.heap[m].variations[i]]) } :
                                   i \in 1..Len(s.heap[m].variations) } : m \in seen }
        more == seen \cup viaNext \cup viaVars
    IN  IF more = seen THEN seen ELSE ReachFrom(s, more)

Range(seq) == { seq[i] : i \in 1..Len(seq) }

TreeMoves(s) == ReachFrom(s, Range(s.arrays[s.moves]))

\* The state a call starts from.
Cur == State(heap, arrays, moves, currentMove)

\* The state a call leaves behind.  A call that allocates a Move or an array
\* goes through only within the bounds of the model.
Commit(s) ==
    /\ Len(s.heap) > Len(heap) => Len(s.heap) <= MaxMoves
    /\ Len(s.arrays) > Len(arrays) => Len(s.arrays) <= MaxArrays
    /\ heap' = s.heap
    /\ arrays' = s.arrays
    /\ moves' = s.moves
    /\ currentMove' = s.currentMove
    /\ Delivered(s.events)
    /\ UNCHANGED <<setUpFen, setUpPly, disableNullMoves, pgn, tags>>

----------------------------------------------------------------------------

\* One call chess.move(text, {previousMove}); the previous move is given by
\* the order of creation of the moves, 0 for null.
Call(text, previousMove) ==
    [candidate |-> StringCandidate(text), previousMove |-> previousMove]

\* The games a behaviour starts from: the empty game, and games of five
\* or six moves built by move() calls.
\*   1. e4 e5 (1... d5 2. e4 (2. d4))
\*   1. e4 (1. d4 e5 (1... d5)) 1... e5
\*   1. e4 e5 (1... d5) 2. d4 (2. e4)
\*   1. e4 e5 (1... d5) (1... c5 2. d4)
\*   1. e4 e5 (1... d5 2. e4 (2. d4) (2. c4))
Games ==
    { <<>>,
      <<Call("e4", 0), Call("e5", 1), Call("d5", 1), Call("e4", 3), Call("d4", 3)>>,
      <<Call("e4", 0), Call("d4", 0), Call("e5", 2), Call("d5", 2), Call("e5", 1)>>,
      <<Call("e4", 0), Call("e5", 1), Call("d5", 1), Call("d4", 2), Call("e4", 2)>>,
      <<Call("e4", 0), Call("e5", 1), Call("d5", 1), Call("c5", 1), Call("d4", 4)>>,
      <<Call("e4", 0), Call("e5", 1), Call("d5", 1), Call("e4", 3), Call("d4", 3),
        Call("c4", 3)>> }

\* new Chess(): load(FEN.start) on an empty game.
NewChess == State(<<>>, << <<>> >>, 1, Null)

\* The game after the calls.
RECURSIVE Play(_, _)
Play(s, calls) ==
    IF calls = <<>> THEN s
    ELSE CHOOSE game \in
             { Play(State(r.heap, r.arrays, r.moves, r.currentMove), Tail(calls)) :
               r \in { ChessMove(s, Head(calls).candidate, Head(calls).previousMove,
                                 FALSE, FALSE, FALSE, FALSE, FenStart, SetUpPlyOf(FenStart)) } } :
             TRUE

\* new Chess(), then the move() calls of one of the games.
Init ==
    /\ pgn = <<>>
    /\ observers = <<>>
    /\ notified = <<>>
    /\ disableNullMoves = FALSE
    /\ setUpFen = FenStart
    /\ setUpPly = SetUpPlyOf(setUpFen)
    /\ tags = TagsOf(setUpFen)
    /\ \E game \in Games :
           \E s \in {Play(NewChess, game)} :
               /\ heap = s.heap
               /\ arrays = s.arrays
               /\ moves = s.moves
               /\ currentMove = s.currentMove

\* The option sets tried for move(): the defaults, and each option set alone.
MoveOptions ==
    { [strict |-> FALSE, existingOnly |-> FALSE, skipSeek |-> FALSE],
      [strict |-> TRUE, existingOnly |-> FALSE, skipSeek |-> FALSE],
      [strict |-> FALSE, existingOnly |-> TRUE, skipSeek |-> FALSE],
      [strict |-> FALSE, existingOnly |-> FALSE, skipSeek |-> TRUE] }

\* chess.move(candidate, {strict, existingOnly, skipSeek}), played from the
\* current move (the default of previousMove)
Move ==
    \E previousMove \in {currentMove}, candidate \in Candidates, o \in MoveOptions :
        LET s == ChessMove(Cur, candidate, previousMove, o.strict, disableNullMoves,
                           o.existingOnly, o.skipSeek,
                           setUpFen, setUpPly)
        IN  Commit(s)

\* chess.seek(move) for a move of the tree, or null
Seek ==
    \E move \in TreeMoves(Cur) \cup {Null} :
        LET s == seek(Cur, move)
        IN  Commit(s)

\* chess.delete(move) for a move of the tree
Delete ==
    \E move \in TreeMoves(Cur) :
        LET s == ChessDelete(Cur, move)
        IN  Commit(s)

\* chess.promoteVariation(move, intoMainline) for a move of the tree
PromoteVariation ==
    \E move \in TreeMoves(Cur), intoMainline \in BOOLEAN :
        LET s == ChessPromoteVariation(Cur, move, intoMainline)
        IN  Commit(s)

\* chess.validateMove(candidate): the Move it returns is referenced by
\* nothing in the game, which is left as it was.
ValidateMove ==
    \E candidate \in Candidates :
        LET s == ChessValidateMove(Cur, candidate, currentMove, FALSE, disableNullMoves,
                                   setUpFen, setUpPly)
        IN  /\ ~s.threw
            /\ UNCHANGED vars

Next == Move \/ Seek \/ Delete \/ PromoteVariation \/ ValidateMove

Spec == Init /\ [][Next]_vars

----------------------------------------------------------------------------
(* The shape of the tree                                                   *)

\* The arrays of the tree: the mainline and every entry of the variations
\* list of a move of the tree.
TreeArrays(s) ==
    {s.moves} \cup UNION { Range(s.heap[m].variations) : m \in TreeMoves(s) }

\* The 1-based positions of move m in array a.
Positions(s, a, m) == { i \in 1..Len(s.arrays[a]) : s.arrays[a][i] = m }

\* Invariant 1 of the data model for move m.
InOneArray(s, m) ==
    /\ \A a \in TreeArrays(s) :
           IF a = s.heap[m].variation
           THEN Cardinality(Positions(s, a, m)) = 1
           ELSE Positions(s, a, m) = {}
    /\ s.heap[m].variation \in TreeArrays(s)
    /\ isInMainline(s, m) <=> m \in Range(s.arrays[s.moves])

\* Invariant 2 of the data model for move m.
NextIsFollowing(s, m) ==
    \A i \in Positions(s, s.heap[m].variation, m) :
        LET line == s.arrays[s.heap[m].variation] IN
        /\ s.heap[m].next # Null <=> i < Len(line)
        /\ i < Len(line) => s.heap[m].next = line[i + 1]

\* C1: after any sequence of move, delete and promoteVariation calls, every
\* move of the tree is an element of exactly one variation array, the one
\* its `variation` field references, and isInMainline(m) is true exactly
\* for the moves listed by history().
Claim_C1 == \A m \in TreeMoves(Cur) : InOneArray(Cur, m)

\* C2: after any sequence of move, delete and promoteVariation calls, for
\* every move m of the tree, m.next is non-null exactly when m's variation
\* array has an element at the index following m, and m.next is that element.
Claim_C2 == \A m \in TreeMoves(Cur) : NextIsFollowing(Cur, m)

----------------------------------------------------------------------------
(* delete(move)                                                            *)

\* move is the continuation of its line: move.previous.next, or the first
\* mainline move when move.previous is null.
IsContinuation(s, move) == nextMove(s, s.heap[move].previous) = move

\* The moves of move's line that precede it.
Preceding(s, move) ==
    LET line == s.arrays[s.heap[move].variation]
        at == Positions(s, s.heap[move].variation, move)
    IN  IF at = {} THEN line ELSE SubSeq(line, 1, (CHOOSE i \in at : TRUE) - 1)

\* The line that continues after move `previous` (the mainline after null).
LineAfter(s, previous) ==
    IF previous = Null THEN s.arrays[s.moves]
    ELSE s.arrays[s.heap[previous].variation]

\* What C3 says of the state r left by delete(move), where `first` is the
\* first move of move.variations[0].
PromotedInto(s, r, move, first) ==
    /\ ~r.threw
    /\ nextMove(r, s.heap[move].previous) = first
    /\ LineAfter(r, s.heap[move].previous)
           = Preceding(s, move) \o s.arrays[s.heap[move].variations[1]]
    /\ r.heap[first].variations = Tail(s.heap[move].variations)

\* The moves delete(move) is called on in C3.
ContinuationsWithVariations(s) ==
    { m \in TreeMoves(s) :
        /\ IsContinuation(s, m)
        /\ Len(s.heap[m].variations) > 0
        /\ Len(s.arrays[s.heap[m].variations[1]]) > 0 }

\* C3: delete(move), when move is the continuation of its line and has
\* variations, installs the first move of move.variations[0] as the new
\* continuation (the new first mainline move when there is no previous),
\* continues the line with the rest of that variation, and keeps
\* move.variations[1..] in their order as the variations of the installed move.
Claim_C3 ==
    \A move \in ContinuationsWithVariations(Cur) :
        PromotedInto(Cur, ChessDelete(Cur, move), move,
                     arrays[heap[move].variations[1]][1])

\* What C4 says of the state r left by delete(move): every line that lists
\* move is cut at move, the slot of a continuation is emptied, and the
\* mainline is cut at the index of a mainline move.
TruncatedAt(s, r, move) ==
    /\ ~r.threw
    /\ \A a \in TreeArrays(s) : \A i \in Positions(s, a, move) :
           r.arrays[a] = SubSeq(s.arrays[a], 1, i - 1)
    /\ IsContinuation(s, move) => nextMove(r, s.heap[move].previous) = Null
    /\ \A i \in Positions(s, s.moves, move) : Len(r.arrays[r.moves]) = i - 1

\* C4: delete(move) for a move that has no variations truncates its line at
\* move: the line then consists of exactly the moves that preceded move,
\* move.previous.next is null (or the mainline is empty when move was the
\* first mainline move), and for a mainline move at index i history() has
\* length i.  The emptied slot is read as that of a move that was the
\* continuation of its line.
Claim_C4 ==
    \A move \in TreeMoves(Cur) :
        heap[move].variations = <<>> => TruncatedAt(Cur, ChessDelete(Cur, move), move)

\* The chain of previous pointers from move m, m included.
RECURSIVE PreviousChain(_, _)
PreviousChain(s, m) ==
    IF m = Null THEN {} ELSE {m} \cup PreviousChain(s, s.heap[m].previous)

----------------------------------------------------------------------------
(* move(candidate, options)                                                *)

\* The explicit previous moves a caller can pass: a move of the tree, or
\* null for the set-up position.
PreviousMoves(s) == TreeMoves(s) \cup {Null}

\* The position a candidate is played from.
FenBefore(s, previous) == IF previous # Null THEN s.heap[previous].fen ELSE setUpFen

\* Chess.move with its options given as one record.
MoveWith(s, candidate, previousMove, o) ==
    ChessMove(s, candidate, previousMove, o.strict, disableNullMoves,
              o.existingOnly, o.skipSeek,
              setUpFen, setUpPly)

\* The objects a call left behind, as the next call finds them.
After(r) == State(r.heap, r.arrays, r.moves, r.currentMove)

SameTree(s, r) ==
    /\ r.heap = s.heap
    /\ r.arrays = s.arrays
    /\ r.moves = s.moves

\* The second of two equal calls gives the move of the first and adds nothing.
Repeats(r1, r2) ==
    /\ ~r2.threw
    /\ r2.ret = r1.ret
    /\ SameTree(r1, r2)

\* C6: calling move(candidate) twice with the same candidate and the same
\* explicit previous move returns the same Move object both times, and the
\* second call adds no move and no variation to the tree, whether the first
\* call created the move as a continuation or as a new variation.
Claim_C6 ==
    \A candidate \in Candidates, previousMove \in PreviousMoves(Cur), o \in MoveOptions :
        MoveWith(Cur, candidate, previousMove, o).ret # Null
            => Repeats(MoveWith(Cur, candidate, previousMove, o),
                       MoveWith(After(MoveWith(Cur, candidate, previousMove, o)),
                                candidate, previousMove, o))

\* The candidate denotes, from the position after `previous`, the move that
\* the existing continuation `next` is.
Denotes(s, candidate, previous, next, strict) ==
    /\ next # Null
    /\ \E m \in ChessJsResolve(FenBefore(s, previous), candidate, strict) :
           m.san = s.heap[next].san

\* C7: move() recognises an existing continuation by the move it denotes, not
\* by its spelling: a candidate in another notation than the stored SAN (the
\* coordinate string e2e4 for the existing e4) that the oracle resolves to
\* the same move returns that existing move and adds no variation.
Claim_C7 ==
    \A candidate \in Candidates, previousMove \in PreviousMoves(Cur), o \in MoveOptions :
        Denotes(Cur, candidate, previousMove, nextMove(Cur, previousMove), o.strict)
            => /\ MoveWith(Cur, candidate, previousMove, o).ret = nextMove(Cur, previousMove)
               /\ SameTree(Cur, MoveWith(Cur, candidate, previousMove, o))

\* The oracle rejects the candidate in the position after `previous`.
Rejects(s, candidate, previous, strict) ==
    ChessJsResolve(FenBefore(s, previous), candidate, strict) = {}

\* The call neither threw nor touched the tree or the current move.
LeftAlone(s, r) ==
    /\ ~r.threw
    /\ r.ret = Null
    /\ SameTree(s, r)
    /\ r.currentMove = s.currentMove

IllegalMoveEvent(previousMove) == Event("IllegalMove", Null, previousMove, Null)

\* What C8 says of the state r left by the call; `silent` when no event is
\* to be published.
Refused(s, r, previousMove, silent) ==
    /\ LeftAlone(s, r)
    /\ r.events = IF silent THEN <<>> ELSE <<IllegalMoveEvent(previousMove)>>

\* C8 as stated: move() with a candidate the oracle rejects never throws: it
\* returns null, publishes an IllegalMove event, and leaves the whole move
\* tree and the current move exactly as they were before the call.
Claim_C8_AsStated ==
    \A candidate \in Candidates, previousMove \in PreviousMoves(Cur), o \in MoveOptions :
        Rejects(Cur, candidate, previousMove, o.strict)
            => Refused(Cur, MoveWith(Cur, candidate, previousMove, o), previousMove, FALSE)

\* C8 (amended): move() with a candidate the oracle rejects never throws: it
\* returns null and leaves the whole move tree and the current move exactly
\* as they were; it publishes an IllegalMove event, except with existingOnly,
\* where it publishes no event.
Claim_C8 ==
    \A candidate \in Candidates, previousMove \in PreviousMoves(Cur), o \in MoveOptions :
        Rejects(Cur, candidate, previousMove, o.strict)
            => Refused(Cur, MoveWith(Cur, candidate, previousMove, o), previousMove,
                       o.existingOnly)

\* A rejected candidate played after a move of the tree that is not the
\* current move: null comes back with the IllegalMove event.
Witness_C8 ==
    \E candidate \in Candidates, previousMove \in TreeMoves(Cur), o \in MoveOptions :
        /\ Rejects(Cur, candidate, previousMove, o.strict)
        /\ ~ o.existingOnly
        /\ previousMove # currentMove
        /\ MoveWith(Cur, candidate, previousMove, o).ret = Null
        /\ MoveWith(Cur, candidate, previousMove, o).events
               = <<IllegalMoveEvent(previousMove)>>

----------------------------------------------------------------------------
(* validateMove(candidate, options)                                        *)

\* The move returned is a new object that nothing in the tree refers to.
Detached(r) ==
    /\ r.ret = Len(r.heap)
    /\ r.ret \notin TreeMoves(r)
    /\ r.heap[r.ret].next = Null
    /\ r.heap[r.ret].variations = <<>>

\* What C9 says of the state r left by validateMove.
OnlyValidated(s, r, rejected) ==
    /\ ~r.threw
    /\ r.events = <<>>
    /\ r.arrays = s.arrays
    /\ r.moves = s.moves
    /\ r.currentMove = s.currentMove
    /\ SubSeq(r.heap, 1, Len(s.heap)) = s.heap
    /\ IF rejected THEN r.ret = Null /\ r.heap = s.heap
       ELSE Len(r.heap) = Len(s.heap) + 1 /\ Detached(r)

\* C9: validateMove(candidate, options) never changes the move tree, the
\* current move or the set-up position and publishes no event; it returns a
\* Move that is not linked into the tree (no next, no variations) when the
\* candidate is legal in the position after previousMove, and null otherwise.
Claim_C9 ==
    \A candidate \in Candidates, previousMove \in PreviousMoves(Cur), strict \in BOOLEAN :
        OnlyValidated(Cur,
                      ChessValidateMove(Cur, candidate, previousMove, strict, disableNullMoves,
                                        setUpFen, setUpPly),
                      Rejects(Cur, candidate, previousMove, strict))

\* A legal candidate validated after a move that already has a continuation:
\* the move comes back and the continuation has no new variation.
Witness_C9 ==
    \E candidate \in Candidates, previousMove \in TreeMoves(Cur) :
        /\ heap[previousMove].next # Null
        /\ ~candidateMatches(Cur, candidate, heap[previousMove].next)
        /\ ChessValidateMove(Cur, candidate, previousMove, FALSE, disableNullMoves,
                             setUpFen, setUpPly).ret
               = Len(heap) + 1
        /\ ChessValidateMove(Cur, candidate, previousMove, FALSE, disableNullMoves,
                             setUpFen, setUpPly)
               .heap[heap[previousMove].next].variations = <<>>

----------------------------------------------------------------------------
(* addMove(candidate, previous)                                            *)

IsPrefix(a, b) == Len(a) <= Len(b) /\ SubSeq(b, 1, Len(a)) = a

\* The order of every existing line and variations list is unchanged.
OrderKept(s, r) ==
    /\ r.moves = s.moves
    /\ \A a \in 1..Len(s.arrays) : IsPrefix(s.arrays[a], r.arrays[a])
    /\ \A m \in 1..Len(s.heap) : IsPrefix(s.heap[m].variations, r.heap[m].variations)

\* The new move is the only element of a new array appended at the end of
\* host.variations.
NewVariationOf(s, r, host, new) ==
    /\ Len(r.arrays) = Len(s.arrays) + 1
    /\ r.arrays[Len(r.arrays)] = <<new>>
    /\ r.heap[host].variations = Append(s.heap[host].variations, Len(r.arrays))
    /\ r.heap[new].variation = Len(r.arrays)

\* The new move is at the end of every line that lists `previous`.
AppendedAfter(s, r, previous, new) ==
    /\ r.heap[previous].next = new
    /\ \A a \in TreeArrays(s) :
           Positions(s, a, previous) # {} => r.arrays[a] = Append(s.arrays[a], new)

\* The placement rule of C10 for the move `new` added after `previous`.
Placed(s, r, previous, new) ==
    IF previous # Null /\ s.heap[previous].next # Null
        THEN NewVariationOf(s, r, s.heap[previous].next, new)
    ELSE IF previous # Null
        THEN AppendedAfter(s, r, previous, new)
    ELSE IF firstMove(s) # Null
        THEN NewVariationOf(s, r, firstMove(s), new)
    ELSE r.arrays[r.moves] = <<new>>

\* C10: addMove(candidate, previous) with a legal candidate places the new
\* move by this rule: if previous has a next, as the only element of a new
\* array appended at the end of previous.next.variations; if previous has no
\* next, at the end of previous's own line as previous.next; if previous is
\* null and the mainline is non-empty, as a new array appended at the end of
\* the first mainline move's variations; if previous is null and the mainline
\* is empty, as the first mainline move.  In every case the new move's
\* previous is the given previous and the order of all existing lines and
\* variations lists is unchanged.
Claim_C10 ==
    \A candidate \in Candidates, previous \in PreviousMoves(Cur), strict \in BOOLEAN :
        LET r == HistoryAddMove(Cur, candidate, previous, strict, disableNullMoves,
                                setUpFen, setUpPly) IN
        ~Rejects(Cur, candidate, previous, strict)
            => /\ ~r.threw
               /\ r.ret = Len(heap) + 1
               /\ r.heap[r.ret].previous = previous
               /\ Placed(Cur, r, previous, r.ret)
               /\ OrderKept(Cur, r)

----------------------------------------------------------------------------
(* promoteVariation(move, intoMainline), canPromoteVariation               *)

\* The entries (counted from 1) of the variant parent's variations list
\* whose array contains move.
EntriesOf(s, parent, move) ==
    { i \in 1..Len(s.heap[parent].variations) :
        move \in Range(s.arrays[s.heap[parent].variations[i]]) }

\* seq with its entries i - 1 and i exchanged.
Exchanged(seq, i) == [seq EXCEPT ![i - 1] = seq[i], ![i] = seq[i - 1]]

\* What C11 says of the state r left by promoteVariation(move, false): the
\* entry of parent's variations that contains move has changed places with
\* the entry before it, and nothing else has changed.
SwappedOnly(s, r, parent, move) ==
    /\ ~r.threw
    /\ \E i \in EntriesOf(s, parent, move) :
           /\ i > 1
           /\ r.heap = [s.heap EXCEPT ![parent].variations = Exchanged(@, i)]
    /\ r.arrays = s.arrays
    /\ r.moves = s.moves
    /\ r.currentMove = s.currentMove

RECURSIVE NextChain(_, _, _)
NextChain(s, m, seen) ==
    IF m = Null \/ m \in seen THEN seen
    ELSE NextChain(s, s.heap[m].next, seen \cup {m})

\* What C12 says of the state r left by promoteVariation(move, true).
InMainlineAfter(r, move) ==
    /\ ~r.threw
    /\ isInMainline(r, move)
    /\ move \in NextChain(r, firstMove(r), {})

\* C12: after promoteVariation(move, true) on any move that is not in the
\* mainline, at any depth of nesting and including variations of the first
\* move, isInMainline(move) is true and move is reachable from firstMove()
\* by following next.
Claim_C12 ==
    \A move \in TreeMoves(Cur) :
        move \notin Range(arrays[moves])
            => InMainlineAfter(ChessPromoteVariation(Cur, move, TRUE), move)

\* The line that starts with move m: m and the moves after it by next.
RECURSIVE LineFrom(_, _, _)
LineFrom(s, m, fuel) ==
    IF m = Null \/ fuel = 0 THEN <<>>
    ELSE <<m>> \o LineFrom(s, s.heap[m].next, fuel - 1)

\* What C13 says of the state r left by one step of a promotion into the
\* mainline that promotes the line of variantRoot over variantParent.
Displaced(s, r, variantRoot, variantParent) ==
    /\ ~r.threw
    /\ Len(r.heap[variantRoot].variations) = Len(s.heap[variantParent].variations)
    /\ r.arrays[r.heap[variantRoot].variations[1]]
           = LineFrom(s, variantParent, Len(s.heap))
    /\ \E i \in EntriesOf(s, variantParent, variantRoot) :
           /\ Tail(r.heap[variantRoot].variations)
                  = RemoveAt(s.heap[variantParent].variations, i)
           /\ \A k \in 2..Len(r.heap[variantRoot].variations) :
                  r.arrays[r.heap[variantRoot].variations[k]]
                      = s.arrays[r.heap[variantRoot].variations[k]]
    /\ r.heap[variantParent].variations = <<>>

\* The steps of promoteVariation(move, true) from the one that promotes the
\* line of variantRoot over variantParent: each does what C13 says.  There
\* is no step when no entry of variantParent.variations starts with
\* variantRoot (line 1154).
RECURSIVE StepsDisplace(_, _, _, _, _)
StepsDisplace(s, move, variantRoot, variantParent, fuel) ==
    LET r == PromoteStep(s, move, TRUE, variantRoot, variantParent,
                         VariantIndex(s, variantParent, variantRoot))
    IN  VariantIndex(s, variantParent, variantRoot) >= 0 =>
            /\ Displaced(s, r, variantRoot, variantParent)
            /\ (fuel > 0 /\ PromoteAgain(r, TRUE, NextVariantRoot(r, variantRoot)) = "again")
                   => StepsDisplace(r, move, NextVariantRoot(r, variantRoot),
                                    getVariantParent(r, NextVariantRoot(r, variantRoot)),
                                    fuel - 1)

Promotable(s, move, intoMainline) ==
    \E p \in TreeMoves(s) :
        /\ EntriesOf(s, p, move) # {}
        /\ \/ intoMainline
           \/ p \notin Range(s.arrays[s.moves])
           \/ 1 \notin EntriesOf(s, p, move)

----------------------------------------------------------------------------
(* deleteBefore(move): prefix deletion, as the specification describes it  *)
(* (section 4.4).  The tree is re-rooted at move; the moves before it are  *)
(* discarded and the variations that branched off them are kept as         *)
(* variations of the new first move.                                       *)

\* The moves discarded by deleteBefore(move): move.previous and the moves
\* before it, back to the start of the game.
Ancestors(s, move) == PreviousChain(s, s.heap[move].previous)

\* The variation arrays that branched off the discarded moves, other than
\* the one leading to move: the entries of a variations list whose first
\* move was played after a discarded move or from the old set-up position.
Branches(s, move) ==
    { a \in TreeArrays(s) \ {s.moves} :
        /\ Len(s.arrays[a]) > 0
        /\ s.heap[s.arrays[a][1]].previous \in Ancestors(s, move) \cup {Null}
        /\ Range(s.arrays[a]) \cap (Ancestors(s, move) \cup {move}) = {} }

\* The elements of a set of array indices, in increasing order.
RECURSIVE Ordered(_)
Ordered(set) ==
    IF set = {} THEN <<>>
    ELSE LET least == CHOOSE a \in set : \A b \in set : a <= b
         IN  <<least>> \o Ordered(set \ {least})

\* A prefix deletion that always moves the current move to the new root.
DeleteBeforeCurrentReset(s, move) == move

\* deleteBefore, the current move: moved to move from a discarded ancestor,
\* kept anywhere else.
DeleteBeforeCurrent(s, move) ==
    IF s.currentMove \in Ancestors(s, move) THEN move ELSE s.currentMove

\* A prefix deletion that forgets to cut the links to the discarded moves.
DeleteBeforeTreeLinked(s, move) ==
    [s EXCEPT !.moves = s.heap[move].variation]

\* deleteBefore, the tree: move.previous is null, move's array cut to start
\* at move is the mainline, and the first move of every kept branch has
\* previous null.
DeleteBeforeTree(s, move) ==
    LET line == s.heap[move].variation
        at == FirstIndex(Positions(s, line, move))
        heads == { s.arrays[a][1] : a \in Branches(s, move) }
        kept == Ordered(Branches(s, move) \ Range(s.heap[move].variations))
    IN  [s EXCEPT !.heap = [m \in DOMAIN s.heap |->
                               IF m = move
                               THEN [s.heap[m] EXCEPT !.previous = Null,
                                                      !.variations = @ \o kept]
                               ELSE IF m \in heads
                               THEN [s.heap[m] EXCEPT !.previous = Null]
                               ELSE s.heap[m]],
                  !.arrays[line] = SubSeq(@, at + 1, Len(@)),
                  !.moves = line]

\* Chess.deleteBefore: the game after the call, with the set-up position
\* the History then has.
ChessDeleteBefore(s, move) ==
    [game |-> [DeleteBeforeTree(s, move) EXCEPT
                   !.currentMove = DeleteBeforeCurrent(s, move)],
     setUpFen |-> s.heap[move].before,
     setUpPly |-> s.heap[move].ply]

\* chess.deleteBefore(move) for a move of the tree
DeleteBefore ==
    \E move \in TreeMoves(Cur) :
        LET r == ChessDeleteBefore(Cur, move)
        IN  /\ heap' = r.game.heap
            /\ arrays' = r.game.arrays
            /\ moves' = r.game.moves
            /\ currentMove' = r.game.currentMove
            /\ setUpFen' = r.setUpFen
            /\ setUpPly' = r.setUpPly
            /\ tags' = Tags("1", {r.setUpFen})
            /\ UNCHANGED <<disableNullMoves, pgn, observers, notified>>

\* Games edited by move, seek and deleteBefore.
NextDeleteBefore == Move \/ Seek \/ DeleteBefore

SpecDeleteBefore == Init /\ [][NextDeleteBefore]_vars

\* What C15 says of the game r left by deleteBefore(move).
ReRooted(s, r, move) ==
    /\ firstMove(r.game) = move
    /\ r.game.heap[move].previous = Null
    /\ r.game.arrays[r.game.moves] = LineFrom(s, move, Len(s.heap))
    /\ r.setUpFen = s.heap[move].before
    /\ r.setUpPly = s.heap[move].ply

\* C15: after deleteBefore(move) for a move in the tree, firstMove() is
\* move, move.previous is null, the mainline is move followed by the moves
\* that followed it on its line, and the set-up position is replaced by
\* move.before: setUpFen() equals move.before and the set-up ply equals
\* move.ply.
Claim_C15 ==
    \A move \in TreeMoves(Cur) : ReRooted(Cur, ChessDeleteBefore(Cur, move), move)

\* A game whose first moves were deleted: it starts from a later position,
\* with a first move that has no previous and a move after it.
Witness_C15 ==
    /\ setUpFen # FenStart
    /\ firstMove(Cur) # Null
    /\ heap[firstMove(Cur)].previous = Null
    /\ setUpFen = heap[firstMove(Cur)].before
    /\ setUpPly = heap[firstMove(Cur)].ply
    /\ Len(arrays[moves]) > 1

\* The moves of the branches deleteBefore(move) keeps: the moves of the
\* kept arrays and everything after them.
BranchMoves(s, move) ==
    ReachFrom(s, UNION { Range(s.arrays[a]) : a \in Branches(s, move) })

\* What C16 says of the game r left by deleteBefore(move) when the current
\* move was c.
PointerKept(s, r, move, c) ==
    /\ c \in Ancestors(s, move) => r.game.currentMove = move
    /\ c \notin Ancestors(s, move) => r.game.currentMove = c
    /\ (c # Null /\ move \in PreviousChain(s, c))
           => r.game.currentMove = c /\ c \in TreeMoves(r.game)
    /\ c \in BranchMoves(s, move)
           => /\ r.game.currentMove = c
              /\ c \in TreeMoves(r.game)
              /\ \A a \in Branches(s, move) :
                     r.game.heap[r.game.arrays[a][1]].previous = Null

\* C16: deleteBefore(move) moves the current-move pointer to move exactly
\* when the pointer was on a discarded ancestor of move; when the pointer
\* was on a descendant of move, or inside a sibling branch that is
\* preserved and re-rooted (whose first move then has previous null), the
\* pointer still refers to the same move afterwards.
Claim_C16 ==
    \A move \in TreeMoves(Cur) :
        PointerKept(Cur, ChessDeleteBefore(Cur, move), move, currentMove)

\* The current move is inside a branch that deleteBefore(move) keeps, below
\* its first move, and deleteBefore(move) leaves it the current move.
Witness_C16 ==
    \E move \in TreeMoves(Cur) :
        /\ Ancestors(Cur, move) # {}
        /\ currentMove \in BranchMoves(Cur, move)
        /\ heap[currentMove].previous \in BranchMoves(Cur, move)
        /\ ChessDeleteBefore(Cur, move).game.currentMove = currentMove

----------------------------------------------------------------------------
(* Games from other set-up positions, with null moves                      *)

\* A set-up position given to the constructor as a FEN.
SetUpFen(turn, num, check, over) ==
    [Fen(turn, num, <<>>) EXCEPT !.check = check, !.over = over]

\* The set-up positions tried: the starting position, positions of later
\* moves with either side to move, a position where the side to move is in
\* check, a checkmate and a stalemate.
SetUpFens ==
    { FenStart,
      SetUpFen("b", 1, FALSE, FALSE),
      SetUpFen("w", 2, FALSE, FALSE),
      SetUpFen("b", 3, FALSE, FALSE),
      SetUpFen("w", 3, TRUE, FALSE),
      SetUpFen("b", 2, TRUE, TRUE),
      SetUpFen("w", 2, FALSE, TRUE) }

\* The null-move candidates: the Z0 notation and the kings onto each other.
NullMoveCandidates ==
    { StringCandidate(nullMoveNotation), ObjectCandidate("e1", "e8"),
      ObjectCandidate("e8", "e1") }

\* The disableNullMoves option of a call: absent, or a boolean.
DisableOptions == {"undefined", "true", "false"}

\* disableNullMoves = this.disableNullMoves: the default of the option of
\* move() is the instance's setting.
DisableNullMovesOf(option, instance) ==
    IF option = "undefined" THEN instance ELSE option = "true"

\* new Chess({fen, disableNullMoves}): an empty game from a set-up position.
InitSetUp ==
    /\ pgn = <<>>
    /\ observers = <<>>
    /\ notified = <<>>
    /\ disableNullMoves \in BOOLEAN
    /\ setUpFen \in SetUpFens
    /\ setUpPly = SetUpPlyOf(setUpFen)
    /\ tags = TagsOf(setUpFen)
    /\ heap = NewChess.heap
    /\ arrays = NewChess.arrays
    /\ moves = NewChess.moves
    /\ currentMove = NewChess.currentMove

\* chess.move(candidate, {disableNullMoves}) from the current move, for a
\* move of each side and the null-move candidates.
MoveOrNullMove ==
    \E previousMove \in {currentMove}, option \in DisableOptions,
       candidate \in NullMoveCandidates \cup {StringCandidate("e4"), StringCandidate("e5")} :
        LET s == ChessMove(Cur, candidate, previousMove, FALSE,
                           DisableNullMovesOf(option, disableNullMoves), FALSE, FALSE,
                           setUpFen, setUpPly)
        IN  Commit(s)

NextSetUp == MoveOrNullMove \/ Seek

SpecSetUp == InitSetUp /\ [][NextSetUp]_vars

\* Null moves are allowed in a call: not disabled for the call, and the
\* side to move is not in check and the game is not over.
NullMoveAllowed(fen, option) ==
    /\ ~DisableNullMovesOf(option, disableNullMoves)
    /\ ~fen.check
    /\ ~fen.over

\* chess.move(candidate, {previousMove, disableNullMoves: option})
NullMoveWith(s, candidate, previousMove, option) ==
    ChessMove(s, candidate, previousMove, FALSE,
              DisableNullMovesOf(option, disableNullMoves), FALSE, FALSE,
              setUpFen, setUpPly)

\* The call gave back a null move played after previousMove, now current.
NullMoveMade(r, previousMove) ==
    /\ ~r.threw
    /\ r.ret # Null
    /\ r.heap[r.ret].san = nullMoveNotation
    /\ r.heap[r.ret].previous = previousMove
    /\ r.currentMove = r.ret

\* What C17 says of the state r left by move() with a null-move candidate.
NullMoveDecided(s, r, previousMove, allowed) ==
    IF allowed THEN NullMoveMade(r, previousMove) ELSE LeftAlone(s, r)

\* C17 as the specification states it, for every null-move candidate.
Claim_C17_AsStated ==
    \A candidate \in NullMoveCandidates, previousMove \in PreviousMoves(Cur),
       option \in DisableOptions :
        isNullMove(candidate, FenBefore(Cur, previousMove))
            => NullMoveDecided(Cur, NullMoveWith(Cur, candidate, previousMove, option),
                               previousMove,
                               NullMoveAllowed(FenBefore(Cur, previousMove), option))

\* The null move is already in the game after previousMove: as its
\* continuation or as the first move of one of its variations.
NullMoveExists(s, previousMove) ==
    \/ candidateMatches(s, StringCandidate(nullMoveNotation), nextMove(s, previousMove))
    \/ getVariation(s, StringCandidate(nullMoveNotation), previousMove) # Null

\* C17: a null-move candidate (the string Z0, or a from/to pair that moves
\* the side-to-move's king onto the opposing king) that is not already a
\* move of the game after the previous move is accepted exactly when null
\* moves are not disabled (the per-call disableNullMoves option overrides
\* the instance setting), the side to move is not in check and the game is
\* not over; when it is rejected, move() returns null and the tree and the
\* current move are unchanged.
Claim_C17 ==
    \A candidate \in NullMoveCandidates, previousMove \in PreviousMoves(Cur),
       option \in DisableOptions :
        (/\ isNullMove(candidate, FenBefore(Cur, previousMove))
         /\ ~NullMoveExists(Cur, previousMove))
            => NullMoveDecided(Cur, NullMoveWith(Cur, candidate, previousMove, option),
                               previousMove,
                               NullMoveAllowed(FenBefore(Cur, previousMove), option))

\* In a game that disables null moves, after a null move made by a call
\* that enabled them, the from/to null move of the other side is made by
\* another such call.
Witness_C17 ==
    /\ disableNullMoves
    /\ currentMove # Null
    /\ heap[currentMove].san = nullMoveNotation
    /\ ~NullMoveExists(Cur, currentMove)
    /\ NullMoveMade(NullMoveWith(Cur, ObjectCandidate("e8", "e1"), currentMove, "false"),
                    currentMove)

----------------------------------------------------------------------------
(* The ply of a move                                                       *)

\* C19 as the specification states it: one more than the set-up ply for a
\* move without previous.
Claim_C19_AsStated ==
    \A m \in TreeMoves(Cur) :
        heap[m].ply = (IF heap[m].previous # Null THEN heap[heap[m].previous].ply
                       ELSE setUpPly) + 1

\* C19: for every move in the tree, after construction and after any
\* sequence of add/delete/promote operations, move.ply is
\* move.previous.ply + 1, and the set-up ply itself for a move that has no
\* previous move.
Claim_C19 ==
    \A m \in TreeMoves(Cur) :
        heap[m].ply = IF heap[m].previous # Null THEN heap[heap[m].previous].ply + 1
                      ELSE setUpPly

\* A variation of the first move and a reply to it in a game that has seen
\* a variation promoted over its mainline and a move deleted.
Witness_C19 ==
    /\ \E m \in TreeMoves(Cur) :
           /\ heap[m].previous = Null
           /\ m # firstMove(Cur)
           /\ heap[m].next # Null
           /\ heap[heap[m].next].ply = setUpPly + 1
    /\ firstMove(Cur) # 1
    /\ \E m \in 1..Len(heap) : m \notin TreeMoves(Cur)

\* C20: the first move played from the set-up position, whether it is the
\* first mainline move or the root of a variation added at the game start,
\* has ply 2 * N - 1 when white is to move in the set-up FEN and 2 * N when
\* black is to move, N being the set-up FEN's fullmove number.
Claim_C20 ==
    \A m \in TreeMoves(Cur) :
        heap[m].previous = Null
            => heap[m].ply = IF setUpFen.turn = "w" THEN 2 * setUpFen.num - 1
                             ELSE 2 * setUpFen.num

\* A game set up with black to move at move 3: its first move and a
\* variation of the first move both have ply 6.
Witness_C20 ==
    /\ setUpFen.turn = "b"
    /\ setUpFen.num = 3
    /\ firstMove(Cur) # Null
    /\ heap[firstMove(Cur)].ply = 6
    /\ \E m \in TreeMoves(Cur) :
           m # firstMove(Cur) /\ heap[m].previous = Null /\ heap[m].ply = 6

----------------------------------------------------------------------------
(* History.traverse: the tree of a parsed PGN                              *)

\* A TraverseStackItem
StackItem(pgnMoves, fen, parent, mainVariant, ply) ==
    [pgnMoves |-> pgnMoves, fen |-> fen, parent |-> parent,
     mainVariant |-> mainVariant, ply |-> ply]

\* The parsed variations of a move pushed last to first.
PushVariationsReversed(stack, parsedVariations, fen, parent, mainVariant, ply) ==
    stack \o [i \in 1..Len(parsedVariations) |->
                 StackItem(parsedVariations[Len(parsedVariations) + 1 - i], fen, parent,
                           mainVariant, ply)]

\* stack.push({pgnMoves: parsedVariation, ...}) for each parsed variation
\* of a move, in their order.
RECURSIVE PushVariations(_, _, _, _, _, _)
PushVariations(stack, parsedVariations, fen, parent, mainVariant, ply) ==
    IF parsedVariations = <<>> THEN stack
    ELSE PushVariations(Append(stack, StackItem(Head(parsedVariations), fen, parent,
                                                mainVariant, ply)),
                        Tail(parsedVariations), fen, parent, mainVariant, ply)

\* The for loop over the pgnMoves of one stack item, from the k-th on.  t is
\* the objects made so far with the stack; `variation` is the array being
\* filled.  An invalid move ends the loop by an error: t.threw.
RECURSIVE TraverseMoves(_, _, _, _, _, _)
TraverseMoves(t, item, k, previousMove, variation, strict) ==
    IF k > Len(item.pgnMoves) THEN t
    ELSE LET pgnMove == item.pgnMoves[k]
             line == t.arrays[variation]
             fen == IF Len(line) > 0 THEN t.heap[line[Len(line)]].fen ELSE item.fen
             found == IF pgnMove.notation = nullMoveNotation THEN getNullMove(fen, FALSE)
                      ELSE ChessJsResolve(fen, StringCandidate(pgnMove.notation), strict)
             move == Len(t.heap) + 1
             linkNext == previousMove # Null /\ t.heap[previousMove].next = Null
         IN  IF found = {} THEN [t EXCEPT !.threw = TRUE]
             ELSE TraverseMoves(
                      [t EXCEPT
                          !.heap = Append(
                              IF linkNext THEN [@ EXCEPT ![previousMove].next = move] ELSE @,
                              [getMove(item.ply + k - 1, pgnMove, CHOOSE x \in found : TRUE, fen)
                                  EXCEPT !.previous = previousMove, !.variation = variation]),
                          !.arrays[variation] = Append(@, move),
                          !.stack = PushVariations(@, pgnMove.variations, fen, previousMove,
                                                   move, item.ply + k - 1)],
                      item, k + 1, move, variation, strict)

\* The line appended to the variations of its main move instead of put
\* first.
TraverseAttachPush(t, item, variation) ==
    IF t.threw THEN [t EXCEPT !.threw = FALSE]
    ELSE IF item.mainVariant # Null
    THEN [t EXCEPT !.heap[item.mainVariant].variations = Append(@, variation)]
    ELSE [t EXCEPT !.moves = variation]

\* An error that ends the whole traversal: the lines still on the stack
\* are not built.
TraverseAttachAbort(t, item, variation) ==
    IF t.threw THEN [t EXCEPT !.threw = FALSE, !.stack = <<>>]
    ELSE IF item.mainVariant # Null
    THEN [t EXCEPT !.heap[item.mainVariant].variations = <<variation>> \o @]
    ELSE [t EXCEPT !.moves = variation]

\* After the loop: the line becomes the first variation of its main move,
\* or the mainline.  A line that ended by an error is dropped.
TraverseAttach(t, item, variation) ==
    IF t.threw THEN [t EXCEPT !.threw = FALSE]
    ELSE IF item.mainVariant # Null
    THEN [t EXCEPT !.heap[item.mainVariant].variations = <<variation>> \o @]
    ELSE [t EXCEPT !.moves = variation]

\* The while loop of traverse: stack.pop() until the stack is empty.
RECURSIVE TraverseStack(_, _)
TraverseStack(t, strict) ==
    IF t.stack = <<>> THEN t
    ELSE LET item == t.stack[Len(t.stack)]
             variation == Len(t.arrays) + 1
             popped == [t EXCEPT !.stack = SubSeq(@, 1, Len(@) - 1),
                                 !.arrays = Append(@, <<>>)]
         IN  TraverseStack(
                 TraverseAttach(
                     TraverseMoves(popped, item, 1, item.parent, variation, strict),
                     item, variation),
                 strict)

\* History.constructor(moves, setUpFen): the game of the parsed moves.
HistoryOf(pgnMoves, sFen) ==
    IF pgnMoves = <<>> THEN NewChess
    ELSE LET t == TraverseStack(
                      [heap |-> <<>>, arrays |-> << <<>> >>, moves |-> 1, threw |-> FALSE,
                       stack |-> <<StackItem(pgnMoves, sFen, Null, Null, SetUpPlyOf(sFen))>>],
                      FALSE)
         IN  State(t.heap, t.arrays, t.moves, Null)

----------------------------------------------------------------------------
(* renderVariation: the move text of a line.  A text is the sequence of    *)
(* its tokens, so two texts that differ by whitespace are the same text.   *)

\* A token of move text: a move number with its dots, a SAN, a NAG, a
\* brace, the words of a comment, an annotation command with its values,
\* or a parenthesis.
Token(kind, text, list) == [kind |-> kind, text |-> text, list |-> list]

\* Every move number written as that of a white move.
MoveNumberOfWhite(ply) == Token("number", ".", <<(ply \div 2) + 1>>)

\* The spelling of ply / 2 + 1 followed by ". " and of ply / 2 followed by
\* "... ": the number with its dots.
MoveNumber(ply) ==
    IF ply % 2 = 1 THEN Token("number", ".", <<(ply \div 2) + 1>>)
    ELSE Token("number", "...", <<ply \div 2>>)

\* `{ ${comment} } `
RenderComment(comment) ==
    IF comment = "" THEN <<>>
    ELSE <<Token("{", "", <<>>), Token("words", comment, <<>>), Token("}", "", <<>>)>>

\* HistoryRenderOptions; an option left out is false.
RenderOptions(skipComments, skipNags, skipDrawables, skipVariations, skipNullMoves, skipClocks) ==
    [skipComments |-> skipComments, skipNags |-> skipNags, skipDrawables |-> skipDrawables,
     skipVariations |-> skipVariations, skipNullMoves |-> skipNullMoves,
     skipClocks |-> skipClocks]

\* options undefined
NoOptions == RenderOptions(FALSE, FALSE, FALSE, FALSE, FALSE, FALSE)

\* while (tokens.length < 3) tokens.unshift('00')
RECURSIVE PadClock(_)
PadClock(tokens) == IF Len(tokens) < 3 THEN PadClock(<<"00">> \o tokens) ELSE tokens

\* renderCommands: the arrows, then the fields, then the clock, in one
\* comment; nothing when there is none of them.
renderCommands(commentDiag, options) ==
    LET cal == IF ~options.skipDrawables /\ Len(commentDiag.colorArrows) > 0
               THEN <<Token("%cal", "", commentDiag.colorArrows)>> ELSE <<>>
        csl == IF ~options.skipDrawables /\ Len(commentDiag.colorFields) > 0
               THEN <<Token("%csl", "", commentDiag.colorFields)>> ELSE <<>>
        clk == IF ~options.skipClocks /\ commentDiag.clk # <<>>
               THEN <<Token("%clk", "", PadClock(commentDiag.clk))>> ELSE <<>>
    IN  IF cal \o csl \o clk = <<>> THEN <<>>
        ELSE <<Token("{", "", <<>>)>> \o cal \o csl \o clk \o <<Token("}", "", <<>>)>>

\* move.nags.join(' ')
RECURSIVE RenderNags(_)
RenderNags(nags) ==
    IF nags = <<>> THEN <<>>
    ELSE <<Token("nag", Head(nags), <<>>)>> \o RenderNags(Tail(nags))

\* renderVariationRecursive, from the k-th move of the line on; `empty`
\* when nothing has been rendered yet.  The variations of a move are
\* rendered by renderVariation(variation), without the options, each
\* between parentheses.
RECURSIVE renderVariationRecursive(_, _, _, _, _, _)
RECURSIVE RenderVariations(_, _, _)

RenderVariations(s, variations, i) ==
    IF i > Len(variations) THEN <<>>
    ELSE <<Token("(", "", <<>>)>>
         \o renderVariationRecursive(s, s.arrays[variations[i]], 1, FALSE, TRUE, NoOptions)
         \o <<Token(")", "", <<>>)>>
         \o RenderVariations(s, variations, i + 1)

renderVariationRecursive(s, variation, k, needReminder, empty, options) ==
    IF k > Len(variation) THEN <<>>
    ELSE IF options.skipNullMoves /\ s.heap[variation[k]].san = nullMoveNotation THEN <<>>
    ELSE LET move == s.heap[variation[k]]
             before == IF options.skipComments THEN <<>> ELSE RenderComment(move.commentMove)
             number == IF move.ply % 2 = 1 THEN <<MoveNumber(move.ply)>>
                       ELSE IF empty \/ needReminder \/ before # <<>>
                       THEN <<MoveNumber(move.ply)>>
                       ELSE <<>>
             nags == IF options.skipNags THEN <<>> ELSE RenderNags(move.nags)
             after == IF options.skipComments THEN <<>> ELSE RenderComment(move.commentAfter)
             commands == renderCommands(move, options)
             variations == IF options.skipVariations THEN <<>>
                           ELSE RenderVariations(s, move.variations, 1)
         IN  before \o number \o <<Token("san", move.san, <<>>)>> \o nags
             \o after \o commands \o variations
             \o renderVariationRecursive(s, variation, k + 1,
                    after # <<>> \/ commands # <<>> \/ variations # <<>>, FALSE, options)

\* History.render(options)
HistoryRenderWith(s, options) ==
    renderVariationRecursive(s, s.arrays[s.moves], 1, FALSE, TRUE, options)

\* History.render()
HistoryRender(s) == HistoryRenderWith(s, NoOptions)

----------------------------------------------------------------------------
(* The PGN parser (@jackstenglein/pgn-parser), abstracted: the moves of a  *)
(* move text, read token by token.                                         *)

\* The comments read so far at some place: the words, the arrows and the
\* fields, and the tokens that remain.
Comments(words, colorArrows, colorFields, inside, rest) ==
    [words |-> words, colorArrows |-> colorArrows, colorFields |-> colorFields,
     clk |-> <<>>, inside |-> inside, rest |-> rest]

\* The comments at the head of the tokens, each between braces: their words
\* and the values of their %cal, %csl and %clk commands.
RECURSIVE ParseComments(_)
ParseComments(c) ==
    IF c.rest = <<>> THEN c
    ELSE LET token == Head(c.rest) IN
         IF token.kind = "{" THEN ParseComments([c EXCEPT !.inside = TRUE, !.rest = Tail(@)])
         ELSE IF ~c.inside THEN c
         ELSE IF token.kind = "}"
         THEN ParseComments([c EXCEPT !.inside = FALSE, !.rest = Tail(@)])
         ELSE IF token.kind = "words"
         THEN ParseComments([c EXCEPT !.words = IF @ = "" THEN token.text ELSE @,
                                      !.rest = Tail(@)])
         ELSE IF token.kind = "%cal"
         THEN ParseComments([c EXCEPT !.colorArrows = @ \o token.list, !.rest = Tail(@)])
         ELSE IF token.kind = "%csl"
         THEN ParseComments([c EXCEPT !.colorFields = @ \o token.list, !.rest = Tail(@)])
         ELSE IF token.kind = "%clk"
         THEN ParseComments([c EXCEPT !.clk = token.list, !.rest = Tail(@)])
         ELSE ParseComments([c EXCEPT !.rest = Tail(@)])

\* The NAGs at the head of the tokens.
RECURSIVE ParseNags(_)
ParseNags(ts) ==
    IF ts = <<>> \/ Head(ts).kind # "nag" THEN [nags |-> <<>>, rest |-> ts]
    ELSE LET r == ParseNags(Tail(ts))
         IN  [nags |-> <<Head(ts).text>> \o r.nags, rest |-> r.rest]

\* A move number is read and dropped.
SkipNumber(ts) == IF ts # <<>> /\ Head(ts).kind = "number" THEN Tail(ts) ELSE ts

RECURSIVE ParseLine(_)
RECURSIVE ParseVariations(_)

\* One move: the comment before it, its number, its SAN, its NAGs, the
\* comments after it and the variations that follow.
ParseMove(ts) ==
    LET before == ParseComments(Comments("", <<>>, <<>>, FALSE, ts))
        san == SkipNumber(before.rest)
        nags == ParseNags(Tail(san))
        after == ParseComments(Comments("", <<>>, <<>>, FALSE, nags.rest))
        variations == ParseVariations(after.rest)
    IN  [move |-> [PgnMove(Head(san).text, nags.nags, before.words, after.words,
                           after.colorArrows, after.colorFields, variations.variations)
                      EXCEPT !.clk = after.clk],
         rest |-> variations.rest]

\* The variations at the head of the tokens, each between parentheses.
ParseVariations(ts) ==
    IF ts = <<>> \/ Head(ts).kind # "(" THEN [variations |-> <<>>, rest |-> ts]
    ELSE LET line == ParseLine(Tail(ts))
             r == ParseVariations(Tail(line.rest))
         IN  [variations |-> <<line.moves>> \o r.variations, rest |-> r.rest]

\* The moves of a line, up to its closing parenthesis or the end.
ParseLine(ts) ==
    IF ts = <<>> \/ Head(ts).kind = ")" THEN [moves |-> <<>>, rest |-> ts]
    ELSE LET m == ParseMove(ts)
             r == ParseLine(m.rest)
         IN  [moves |-> <<m.move>> \o r.moves, rest |-> r.rest]

\* parse(pgn).moves
ParsePgn(text) == ParseLine(text).moves

----------------------------------------------------------------------------
(* Games loaded from PGN move text: new Chess({pgn}) and chess.loadPgn.     *)

San(text) == Token("san", text, <<>>)
Open == Token("(", "", <<>>)
Close == Token(")", "", <<>>)
Arrows == Token("%cal", "", <<"Ge2e4">>)
Fields == Token("%csl", "", <<"Re4", "Gd5">>)

\* What follows 1. e4 in the texts: nothing, a NAG, a comment, a comment
\* and the two commands as the renderer writes them, the two commands with
\* the fields first, and a comment that holds words and a command.
Annotations ==
    { <<>>,
      <<Token("nag", "$1", <<>>)>>,
      RenderComment("good"),
      <<Token("nag", "$1", <<>>)>> \o RenderComment("good")
          \o <<Token("{", "", <<>>), Arrows, Fields, Token("}", "", <<>>)>>,
      <<Token("{", "", <<>>), Fields, Arrows, Token("}", "", <<>>)>>,
      <<Token("{", "", <<>>), Token("words", "good", <<>>), Arrows, Token("}", "", <<>>)>> }

\* The variations on 1. e4: none, or ( 1. d4 ).
FirstVariations == { <<>>, <<Open, MoveNumber(1), San("d4"), Close>> }

\* The variations on 1... e5: none, one, two, one that holds a variation,
\* one with a comment before its second move, and three of which the last
\* holds a variation.
ReplyVariations ==
    { <<>>,
      <<Open, MoveNumber(2), San("d5"), Close>>,
      <<Open, MoveNumber(2), San("d5"), Close, Open, MoveNumber(2), San("c5"), Close>>,
      <<Open, MoveNumber(2), San("d5"), MoveNumber(3), San("e4"),
        Open, MoveNumber(3), San("d4"), Close, Close>>,
      <<Open, MoveNumber(2), San("d5")>> \o RenderComment("solid")
          \o <<MoveNumber(3), San("e4"), Close>>,
      <<Open, MoveNumber(2), San("d5"), Close, Open, MoveNumber(2), San("c5"), Close,
        Open, MoveNumber(2), San("d5"), MoveNumber(3), San("e4"),
        Open, MoveNumber(3), San("d4"), Close, Close>> }

\* Move texts as chess programs write them: 1. e4 e5 2. d4 with the
\* annotations and variations above, the number of a black move repeated
\* after a comment or a variation.
PgnTexts ==
    { <<MoveNumber(1), San("e4")>> \o annotations \o first
      \o (IF first # <<>> \/ \E i \in 1..Len(annotations) : annotations[i].kind = "{"
          THEN <<MoveNumber(2)>> ELSE <<>>)
      \o <<San("e5")>> \o reply \o <<MoveNumber(3), San("d4")>> :
      annotations \in Annotations, first \in FirstVariations, reply \in ReplyVariations }

\* lastMove(): the last move of the mainline
LastMove(s) ==
    IF s.arrays[s.moves] = <<>> THEN Null ELSE s.arrays[s.moves][Len(s.arrays[s.moves])]

\* The game of a move text: its parsed moves replayed from the starting
\* position, the pointer on the last move of the mainline.
ChessLoadPgn(text) ==
    LET s == HistoryOf(ParsePgn(text), FenStart)
    IN  [s EXCEPT !.currentMove = LastMove(s)]

\* new Chess({pgn: text})
InitPgn ==
    \E text \in PgnTexts :
        /\ pgn = text
        /\ observers = <<>>
        /\ notified = <<>>
        /\ setUpFen = FenStart
        /\ setUpPly = SetUpPlyOf(FenStart)
        /\ tags = NoTags
        /\ disableNullMoves = FALSE
        /\ LET s == ChessLoadPgn(text)
           IN  /\ heap = s.heap
               /\ arrays = s.arrays
               /\ moves = s.moves
               /\ currentMove = s.currentMove

\* chess.loadPgn(text)
LoadPgn ==
    \E previous \in {pgn} :
        \E text \in PgnTexts \ {previous} :
            LET s == ChessLoadPgn(text)
            IN  /\ pgn' = text
                /\ heap' = s.heap
                /\ arrays' = s.arrays
                /\ moves' = s.moves
                /\ currentMove' = s.currentMove
                /\ Delivered(<<Event("Initialized", Null, Null, Null)>>)
                /\ UNCHANGED <<setUpFen, setUpPly, disableNullMoves, tags>>

NextPgn == Seek \/ LoadPgn

SpecPgn == InitPgn /\ [][NextPgn]_vars

\* The tokens of a text whose kind is one of the given kinds.
Only(text, kinds) == SelectSeq(text, LAMBDA token : token.kind \in kinds)

\* C18 as stated: rendering the tree of a move text reproduces the text.
Claim_C18_AsStated == pgn # <<>> => HistoryRender(Cur) = pgn

\* C18: rendering the tree of a move text reproduces its moves, comments,
\* NAGs and parenthesised variations in the same order, and after each move
\* the arrows and the fields that followed it in the text; rendering,
\* loading and rendering again yields the same text.
Claim_C18 ==
    pgn # <<>> =>
        LET text == HistoryRender(Cur)
            Layout == {"number", "san", "nag", "words", "(", ")"}
        IN  /\ Only(text, Layout) = Only(pgn, Layout)
            /\ Only(text, {"san", "(", ")", "%cal"}) = Only(pgn, {"san", "(", ")", "%cal"})
            /\ Only(text, {"san", "(", ")", "%csl"}) = Only(pgn, {"san", "(", ")", "%csl"})
            /\ HistoryRender(ChessLoadPgn(text)) = text

\* A game loaded from a text with two variations on one move, a NAG, a
\* comment and both commands, the pointer moved off the last move.
Witness_C18 ==
    /\ pgn # <<>>
    /\ currentMove # LastMove(Cur)
    /\ \E m \in TreeMoves(Cur) : Len(heap[m].variations) = 2
    /\ \E m \in TreeMoves(Cur) :
        /\ heap[m].nags # <<>>
        /\ heap[m].commentAfter # ""
        /\ heap[m].colorArrows # <<>>
        /\ heap[m].colorFields # <<>>
    /\ HistoryRender(Cur) = pgn

----------------------------------------------------------------------------
(* The order of the variations of a loaded game.                           *)

\* The line is the parsed line: the same moves, each with as many
\* variations as were parsed for it, the i-th variation being the i-th
\* parsed one.
RECURSIVE DeclaredOrder(_, _, _)
DeclaredOrder(s, line, pgnMoves) ==
    /\ Len(s.arrays[line]) = Len(pgnMoves)
    /\ \A k \in 1..Len(pgnMoves) :
        LET move == s.heap[s.arrays[line][k]]
        IN  /\ move.san = pgnMoves[k].notation
            /\ Len(move.variations) = Len(pgnMoves[k].variations)
            /\ \A i \in 1..Len(move.variations) :
                DeclaredOrder(s, move.variations[i], pgnMoves[k].variations[i])

\* C21: in a game loaded from a move text, the variations of every move
\* are in the order in which the text declares them, at every depth.
Claim_C21 == pgn # <<>> => DeclaredOrder(Cur, moves, ParsePgn(pgn))

\* A loaded game with three variations on one move, the last of which has
\* a variation of its own.
Witness_C21 ==
    /\ pgn # <<>>
    /\ \E m \in TreeMoves(Cur) :
        /\ Len(heap[m].variations) = 3
        /\ heap[arrays[heap[m].variations[1]][1]].san = "d5"
        /\ heap[arrays[heap[m].variations[2]][1]].san = "c5"
        /\ \E k \in Range(arrays[heap[m].variations[3]]) : heap[k].variations # <<>>

----------------------------------------------------------------------------
(* Games loaded from move texts in which one variation holds a move that   *)
(* cannot be played.                                                       *)

\* The texts the variation is put in: 1. e4 e5 2. d4 with at most one
\* variation on the first move and at most two on the second.
SoundTexts ==
    { <<MoveNumber(1), San("e4")>> \o first
      \o (IF first # <<>> THEN <<MoveNumber(2)>> ELSE <<>>)
      \o <<San("e5")>> \o reply \o <<MoveNumber(3), San("d4")>> :
      first \in FirstVariations, reply \in { r \in ReplyVariations : Len(r) <= 8 } }

\* Variations with a move that cannot be played: at once; after two moves
\* and a variation when black is to move; after two moves when white is to
\* move.  A move of the side that is not to move cannot be played either.
FailingVariations ==
    { <<Open, San("xyz"), Close>>,
      <<Open, San("d5"), San("e4"), Open, San("d4"), Close, San("xyz"), Close>>,
      <<Open, San("c4"), San("c5"), San("xyz"), Close>> }

\* The places of a text where a variation may be put: after a move or
\* after a variation.
Places(text) == { i \in 1..Len(text) : text[i].kind \in {"san", ")"} }

\* The text with the variation put after its i-th token.
Broken(text, i, variation) ==
    SubSeq(text, 1, i) \o variation \o SubSeq(text, i + 1, Len(text))

BrokenTexts ==
    UNION { { Broken(text, i, variation) : i \in Places(text), variation \in FailingVariations } :
            text \in SoundTexts }

\* new Chess({pgn: text})
InitBroken ==
    \E text \in BrokenTexts :
        /\ pgn = text
        /\ observers = <<>>
        /\ notified = <<>>
        /\ setUpFen = FenStart
        /\ setUpPly = SetUpPlyOf(FenStart)
        /\ tags = NoTags
        /\ disableNullMoves = FALSE
        /\ LET s == ChessLoadPgn(text)
           IN  /\ heap = s.heap
               /\ arrays = s.arrays
               /\ moves = s.moves
               /\ currentMove = s.currentMove

\* chess.loadPgn(text)
LoadBroken ==
    \E previous \in {pgn} :
        \E text \in BrokenTexts \ {previous} :
            LET s == ChessLoadPgn(text)
            IN  /\ pgn' = text
                /\ heap' = s.heap
                /\ arrays' = s.arrays
                /\ moves' = s.moves
                /\ currentMove' = s.currentMove
                /\ Delivered(<<Event("Initialized", Null, Null, Null)>>)
                /\ UNCHANGED <<setUpFen, setUpPly, disableNullMoves, tags>>

NextBroken == Seek \/ LoadBroken

SpecBroken == InitBroken /\ [][NextBroken]_vars

\* The san and ply of a move, nothing for null.
Named(s, m) == IF m = Null THEN <<>> ELSE <<s.heap[m].san, s.heap[m].ply>>

\* A line as it is seen from the game: its moves with their positions,
\* their links and their variations, whatever objects hold them.
RECURSIVE LineOf(_, _)
LineOf(s, line) ==
    [k \in 1..Len(s.arrays[line]) |->
        LET move == s.heap[s.arrays[line][k]]
        IN  [san |-> move.san, ply |-> move.ply, before |-> move.before, fen |-> move.fen,
             previous |-> Named(s, move.previous), next |-> Named(s, move.next),
             own |-> s.arrays[move.variation] = s.arrays[line],
             variations |-> [i \in 1..Len(move.variations) |-> LineOf(s, move.variations[i])]]]

\* C22: a game loaded from a text with a variation that cannot be played
\* is the game of the text without that variation: the same lines with the
\* same moves, links and order.
Claim_C22 ==
    \A text \in SoundTexts : \A i \in Places(text) : \A variation \in FailingVariations :
        pgn = Broken(text, i, variation) =>
            LineOf(Cur, moves) = LineOf(ChessLoadPgn(text), ChessLoadPgn(text).moves)

\* A game loaded from a text whose failing variation was built in part,
\* with its own variation, next to two sound variations of the same move.
Witness_C22 ==
    /\ \E text \in SoundTexts : \E i \in Places(text) : \E variation \in FailingVariations :
        pgn = Broken(text, i, variation)
    /\ \E m \in TreeMoves(Cur) : Len(heap[m].variations) = 2
    /\ \E m \in 1..Len(heap) :
        /\ m \notin TreeMoves(Cur)
        /\ heap[m].variations # <<>>
    /\ Len(arrays[moves]) = 3

----------------------------------------------------------------------------
(* Observers.                                                              *)

\* The number of moves made in a game that is observed, and the number of
\* subscriptions.
MaxObservedMoves == 2
MaxObservers == 3

\* The observers that subscribe: to the moves made; to every change of the
\* game; to new variations and illegal moves, until the first of them.
ObserverPool ==
    { Observer(1, {"LegalMove"}, "note"),
      Observer(2, {"LegalMove", "NewVariation", "IllegalMove", "DeleteMove",
                   "PromoteVariation"}, "note"),
      Observer(3, {"NewVariation", "IllegalMove"}, "unsubscribe") }

\* new Chess()
InitObservers ==
    /\ pgn = <<>>
    /\ observers = <<>>
    /\ notified = <<>>
    /\ disableNullMoves = FALSE
    /\ setUpFen = FenStart
    /\ setUpPly = SetUpPlyOf(setUpFen)
    /\ tags = TagsOf(setUpFen)
    /\ heap = NewChess.heap
    /\ arrays = NewChess.arrays
    /\ moves = NewChess.moves
    /\ currentMove = NewChess.currentMove

\* chess.addObserver(observer)
AddObserver ==
    \E observer \in ObserverPool :
        /\ Len(observers) < MaxObservers
        /\ observers' = addObserver(observers, observer)
        /\ notified' = <<>>
        /\ UNCHANGED <<heap, arrays, moves, setUpFen, setUpPly, currentMove,
                       disableNullMoves, pgn, tags>>

\* chess.removeObserver(observer)
RemoveObserver ==
    \E observer \in ObserverPool :
        /\ observers' = removeObserver(observers, observer)
        /\ notified' = <<>>
        /\ UNCHANGED <<heap, arrays, moves, setUpFen, setUpPly, currentMove,
                       disableNullMoves, pgn, tags>>

\* chess.move(candidate) while the game is short
MoveObserved ==
    \E previousMove \in {currentMove}, candidate \in Candidates :
        LET s == ChessMove(Cur, candidate, previousMove, FALSE, disableNullMoves,
                           FALSE, FALSE, setUpFen, setUpPly)
        IN  /\ Len(s.heap) <= MaxObservedMoves
            /\ Commit(s)

NextObservers ==
    AddObserver \/ RemoveObserver \/ MoveObserved \/ Seek \/ Delete \/ PromoteVariation

SpecObservers == InitObservers /\ [][NextObservers]_vars

\* The handlers that have to run for the events of a call, by what is said
\* of them: for each event in turn, the observers subscribed at that time
\* whose types hold the type of the event, in the order of subscription.  An
\* observer that unsubscribes itself is not subscribed from the next event
\* on.
RECURSIVE Expected(_, _)
Expected(list, events) ==
    IF events = <<>> THEN <<>>
    ELSE LET e == Head(events)
             invoked == SelectSeq(list, LAMBDA o : e.type \in o.types)
             left == SelectSeq(list, LAMBDA o : ~(e.type \in o.types /\ o.handler = "unsubscribe"))
         IN  [i \in 1..Len(invoked) |-> [observer |-> invoked[i].id, event |-> e]]
             \o Expected(left, Tail(events))

\* The handlers run by a call that published the events.
Run(events) == Deliver([observers |-> observers, notified |-> <<>>], events).notified

\* C24: the handlers run by a call are, for each event it publishes, those
\* of the observers whose types hold the event's type, in the order of
\* subscription; removeObserver leaves no subscription of the observer.
Claim_C24 ==
    /\ \A candidate \in Candidates :
        LET s == ChessMove(Cur, candidate, currentMove, FALSE, disableNullMoves,
                           FALSE, FALSE, setUpFen, setUpPly)
        IN  Run(s.events) = Expected(observers, s.events)
    /\ \A move \in TreeMoves(Cur) :
        /\ Run(ChessDelete(Cur, move).events) = Expected(observers, ChessDelete(Cur, move).events)
        /\ \A intoMainline \in BOOLEAN :
            LET s == ChessPromoteVariation(Cur, move, intoMainline)
            IN  Run(s.events) = Expected(observers, s.events)
    /\ \A observer \in ObserverPool :
        \A i \in 1..Len(removeObserver(observers, observer)) :
            removeObserver(observers, observer)[i] # observer
    /\ \A i \in 1..Len(notified) :
        notified[i].event.type \in
            UNION { o.types : o \in { p \in ObserverPool : p.id = notified[i].observer } }

\* A move that made a variation: for the NewVariation event the observer
\* subscribed twice has run first and last and the one between them has
\* unsubscribed itself; for the LegalMove event that follows only the
\* observer subscribed twice has run.
Witness_C24 ==
    /\ Len(notified) = 5
    /\ notified[1].observer = 2
    /\ notified[2].observer = 3
    /\ notified[3].observer = 2
    /\ notified[1].event.type = "NewVariation"
    /\ notified[3].event.type = "NewVariation"
    /\ notified[4].event.type = "LegalMove"
    /\ Len(observers) = 2

----------------------------------------------------------------------------
(* Rendering with options: games loaded from a text, then commented.       *)

\* The number of comments set by setComment in a game.
MaxNotes == 2

Nag == Token("nag", "$1", <<>>)
Clock == Token("%clk", "", <<"5", "00">>)

\* 1. e4 with a NAG, a comment, arrows, fields and a clock, in the main
\* line or in a variation, with null moves and variations in variations.
RenderTexts ==
    { <<MoveNumber(1), San("e4"), Nag>> \o RenderComment("good")
          \o <<Token("{", "", <<>>), Arrows, Fields, Clock, Token("}", "", <<>>)>>
          \o <<MoveNumber(2), San("e5"), MoveNumber(3), San("d4"), San("d5")>>,
      <<MoveNumber(1), San("e4"), Open, MoveNumber(1), San("d4"), Nag>>
          \o RenderComment("fine")
          \o <<Token("{", "", <<>>), Arrows, Clock, Token("}", "", <<>>)>>
          \o <<MoveNumber(2), San("d5"), Close, MoveNumber(2), San("e5")>>,
      <<MoveNumber(1), San("e4"), San("e5"), Open, MoveNumber(2), San(nullMoveNotation),
        MoveNumber(3), San("d4"), Close, MoveNumber(3), San(nullMoveNotation), San("d5")>>,
      <<MoveNumber(1), San("e4"), Nag, San("e5"),
        Open, MoveNumber(2), San("d5"), MoveNumber(3), San("e4"),
        Open, MoveNumber(3), San("d4"), Token("{", "", <<>>), Fields, Token("}", "", <<>>),
        MoveNumber(4), San("c5"), Close, San("e5"), Close,
        Open, MoveNumber(2), San("c5"), Close, MoveNumber(3), San("d4")>> }

\* new Chess({pgn: text})
InitRender ==
    \E text \in RenderTexts :
        /\ pgn = text
        /\ observers = <<>>
        /\ notified = <<>>
        /\ setUpFen = FenStart
        /\ setUpPly = SetUpPlyOf(FenStart)
        /\ tags = NoTags
        /\ disableNullMoves = FALSE
        /\ LET s == ChessLoadPgn(text)
           IN  /\ heap = s.heap
               /\ arrays = s.arrays
               /\ moves = s.moves
               /\ currentMove = s.currentMove

\* Chess.setComment(text, type, move) for a move of the game
ChessSetComment(s, text, type, move) ==
    publishEvent(
        IF type = "Before" THEN [s EXCEPT !.heap[move].commentMove = text]
        ELSE [s EXCEPT !.heap[move].commentAfter = text],
        Event("UpdateComment", move, Null, Null))

\* The comments of the game that setComment wrote.
Notes(s) ==
    { <<m, type>> \in TreeMoves(s) \X {"Before", "After"} :
        IF type = "Before" THEN s.heap[m].commentMove = "note"
        ELSE s.heap[m].commentAfter = "note" }

\* chess.setComment(text, type) on the current move
SetComment ==
    \E move \in {currentMove} \ {Null}, type \in {"Before", "After"}, text \in {"", "note"} :
        LET s == ChessSetComment(Cur, text, type, move)
        IN  /\ Cardinality(Notes(s)) <= MaxNotes
            /\ Commit(s)

NextRender == Seek \/ SetComment

SpecRender == InitRender /\ [][NextRender]_vars

\* The option sets of a render.
AllRenderOptions ==
    { RenderOptions(c, n, d, v, z, k) :
        c \in BOOLEAN, n \in BOOLEAN, d \in BOOLEAN, v \in BOOLEAN, z \in BOOLEAN,
        k \in BOOLEAN }

\* The moves of a rendered line in the order of their SANs in the text: a
\* move, the moves of its variations, then the rest of the line.
RECURSIVE RenderedMoves(_, _, _, _)
RECURSIVE RenderedIn(_, _, _)
RenderedIn(s, variations, i) ==
    IF i > Len(variations) THEN <<>>
    ELSE RenderedMoves(s, s.arrays[variations[i]], 1, NoOptions)
         \o RenderedIn(s, variations, i + 1)

RenderedMoves(s, variation, k, options) ==
    IF k > Len(variation) THEN <<>>
    ELSE IF options.skipNullMoves /\ s.heap[variation[k]].san = nullMoveNotation THEN <<>>
    ELSE <<variation[k]>>
         \o (IF options.skipVariations THEN <<>>
             ELSE RenderedIn(s, s.heap[variation[k]].variations, 1))
         \o RenderedMoves(s, variation, k + 1, options)

\* The places of the SANs in a text.
RECURSIVE SanPlaces(_, _)
SanPlaces(text, p) ==
    IF p > Len(text) THEN <<>>
    ELSE (IF text[p].kind = "san" THEN <<p>> ELSE <<>>) \o SanPlaces(text, p + 1)

\* C25: in a rendered text a white move follows its number n. and a black
\* move follows its number n... exactly when nothing of its line is before
\* it or what is before it is a comment, an annotation block or a
\* variation.
Claim_C25 ==
    \A options \in AllRenderOptions :
        LET text == HistoryRenderWith(Cur, options)
            places == SanPlaces(text, 1)
            rendered == RenderedMoves(Cur, arrays[moves], 1, options)
        IN  /\ Len(places) = Len(rendered)
            /\ \A i \in 1..Len(places) :
                LET p == places[i]
                    ply == heap[rendered[i]].ply
                    numbered == p > 1 /\ text[p - 1].kind = "number"
                    first == IF numbered THEN p - 1 ELSE p
                IN  /\ text[p].text = heap[rendered[i]].san
                    /\ IF ply % 2 = 1
                       THEN /\ numbered
                            /\ text[p - 1].text = "."
                            /\ text[p - 1].list = <<(ply + 1) \div 2>>
                       ELSE /\ numbered =>
                                /\ text[p - 1].text = "..."
                                /\ text[p - 1].list = <<ply \div 2>>
                            /\ numbered <=>
                                (first = 1 \/ text[first - 1].kind \in {"(", "}", ")"})

\* A game in which a black move has a comment before it without being the
\* first of its line or following a comment, and another black move
\* follows a move that has only a NAG.
Witness_C25 ==
    /\ \E m \in TreeMoves(Cur) :
        /\ heap[m].ply % 2 = 0
        /\ heap[m].commentMove = "note"
        /\ heap[m].previous # Null
        /\ heap[heap[m].previous].next = m
        /\ heap[heap[m].previous].commentAfter = ""
        /\ heap[heap[m].previous].variations = <<>>
    /\ \E m \in TreeMoves(Cur) :
        /\ heap[m].ply % 2 = 0
        /\ heap[m].previous # Null
        /\ heap[heap[m].previous].next = m
        /\ heap[heap[m].previous].nags # <<>>
        /\ heap[m].commentMove = ""

\* C26: with a skip option set, the rendered text has no element of the
\* option's kind, in the main line or in a variation.
Claim_C26 ==
    \A options \in AllRenderOptions :
        LET text == HistoryRenderWith(Cur, options)
        IN  \A p \in 1..Len(text) :
                /\ options.skipComments => text[p].kind # "words"
                /\ options.skipNags => text[p].kind # "nag"
                /\ options.skipDrawables => text[p].kind \notin {"%cal", "%csl"}
                /\ options.skipClocks => text[p].kind # "%clk"
                /\ options.skipNullMoves => text[p].text # nullMoveNotation

----------------------------------------------------------------------------
(* fenOfPly                                                                *)

\* Chess.fenOfPly: history()[plyNumber - 1].fen, a TypeError when the
\* mainline has no such entry; the set-up FEN for a ply that is not
\* positive.
fenOfPly(s, plyNumber, sFen) ==
    IF plyNumber > 0
    THEN IF plyNumber <= Len(s.arrays[s.moves])
         THEN [threw |-> FALSE, fen |-> s.heap[s.arrays[s.moves][plyNumber]].fen]
         ELSE [threw |-> TRUE, fen |-> sFen]
    ELSE [threw |-> FALSE, fen |-> sFen]

\* C27: fenOfPly(n) is the position after the mainline move of ply n, and
\* the set-up position for n <= 0, whatever the set-up position is.
Claim_C27 ==
    \A n \in (-1)..(setUpPly + Len(heap)) :
        LET r == fenOfPly(Cur, n, setUpFen)
        IN  IF n <= 0 THEN ~r.threw /\ r.fen = setUpFen
            ELSE \A m \in Range(arrays[moves]) :
                    heap[m].ply = n => ~r.threw /\ r.fen = heap[m].fen

----------------------------------------------------------------------------
(* normalizeFen                                                            *)

\* A FEN as its fields: the pieces, the side to move, the castling rights,
\* the en-passant target, the halfmove clock and the fullmove number; and
\* what the position is to chess.js: whether taking en passant is legal.
FenString(fields, turn, castling, ep, epLegal, half, num) ==
    [fields |-> fields, board |-> <<>>, turn |-> turn, castling |-> castling, ep |-> ep,
     epLegal |-> epLegal, half |-> half, num |-> num, check |-> FALSE, over |-> FALSE]

\* The set-up FENs tried: either side to move, with and without castling
\* rights, without en-passant target, with one that can be taken and with
\* one that cannot, and three values of each clock.
FenStrings ==
    { FenString(6, turn, castling, e[1], e[2], half, num) :
        turn \in {"w", "b"}, castling \in {"KQkq", "-"},
        e \in {<<"-", FALSE>>, <<"e3", TRUE>>, <<"e3", FALSE>>},
        half \in {0, 1, 12}, num \in {1, 2, 30} }

\* normalizeFen: `${pieces} ${color} ${castling} ${enPassant} 0 1`
normalizeFen(fen) ==
    IF fen.fields < 4 THEN [threw |-> TRUE, fen |-> fen]
    ELSE [threw |-> FALSE, fen |-> [fen EXCEPT !.fields = 6, !.half = 0, !.num = 1]]

\* Chess.normalizedFen(move)
normalizedFen(s, move, sFen) ==
    IF move # Null THEN normalizeFen(s.heap[move].fen) ELSE normalizeFen(sFen)

\* new Chess({fen})
InitFen ==
    /\ pgn = <<>>
    /\ observers = <<>>
    /\ notified = <<>>
    /\ disableNullMoves = FALSE
    /\ setUpFen \in FenStrings
    /\ setUpPly = SetUpPlyOf(setUpFen)
    /\ tags = TagsOf(setUpFen)
    /\ heap = NewChess.heap
    /\ arrays = NewChess.arrays
    /\ moves = NewChess.moves
    /\ currentMove = NewChess.currentMove

\* chess.normalizedFen(): the game is left as it was.
NormalizedFen ==
    \E move \in {currentMove} :
        /\ ~normalizedFen(Cur, move, setUpFen).threw
        /\ UNCHANGED vars

NextFen == NormalizedFen \/ Seek

SpecFen == InitFen /\ [][NextFen]_vars

\* C28: the normalized FEN has the halfmove clock 0, the fullmove number 1
\* and the en-passant target - unless taking en passant is legal; the
\* pieces, the side to move and the castling rights are those of the input.
Claim_C28 ==
    LET r == normalizedFen(Cur, currentMove, setUpFen)
        fen == IF currentMove # Null THEN heap[currentMove].fen ELSE setUpFen
    IN  /\ ~r.threw
        /\ r.fen.half = 0
        /\ r.fen.num = 1
        /\ r.fen.ep = (IF fen.epLegal THEN fen.ep ELSE "-")
        /\ r.fen.board = fen.board
        /\ r.fen.turn = fen.turn
        /\ r.fen.castling = fen.castling

----------------------------------------------------------------------------
(* the variations of a move                                                *)

\* What C29 says of a variation of the move P, as stated: it has a first
\* move, whose previous is P.
BranchesFrom(s, P, variation) ==
    /\ s.arrays[variation] # <<>>
    /\ s.heap[s.arrays[variation][1]].previous = P

\* The first move of a variation of the move P replaces P: its previous is
\* the previous of P.
BranchesBeside(s, P, variation) ==
    s.arrays[variation] # <<>>
        => s.heap[s.arrays[variation][1]].previous = s.heap[P].previous

----------------------------------------------------------------------------
(* the line promoted by delete                                             *)

\* The array that holds the line after move `previous` (the mainline after
\* null).
ArrayAfter(s, previous) ==
    IF previous = Null THEN s.moves ELSE s.heap[previous].variation

\* What C30 says of the state r left by delete(move): every move of the line
\* that was move.variations[0] has the merged parent array as its variation.
SharesMerged(s, r, move) ==
    \A m \in Range(s.arrays[s.heap[move].variations[1]]) :
        /\ r.heap[m].variation = ArrayAfter(r, s.heap[move].previous)
        /\ m \in Range(r.arrays[ArrayAfter(r, s.heap[move].previous)])

\* delete(move) has promoted move.variations[0]: its first move is what
\* follows move.previous in the state r left by the call.
Promoted(s, r, move) ==
    /\ ~r.threw
    /\ nextMove(r, s.heap[move].previous) = s.arrays[s.heap[move].variations[1]][1]

----------------------------------------------------------------------------
(* promoteVariation on games read from a PGN                               *)

\* Move texts with variations one and two levels deep; in the first, second
\* and fifth the first move of a variation has a variation of its own.
\*   1. e4 e5 (1... d5 (1... c5) 2. e4) 2. d4
\*   1. e4 (1. d4 (1. c4)) 1... e5
\*   1. e4 e5 (1... d5 2. e4 (2. d4)) 2. d4
\*   1. e4 e5 (1... d5) (1... c5) 2. d4
\*   1. e4 e5 (1... d5 (1... c5 2. d4) 2. e4 (2. c4)) 2. d4
\*   1. e4 e5 (1... d5) 2. d4
\*   1. e4 (1. d4) 1... e5 (1... d5)
\*   1. e4 (1. d4 d5) 1... e5
PromoteTexts ==
    { <<MoveNumber(1), San("e4"), San("e5"),
        Open, MoveNumber(2), San("d5"), Close, MoveNumber(3), San("d4")>>,
      <<MoveNumber(1), San("e4"), Open, MoveNumber(1), San("d4"), Close,
        MoveNumber(2), San("e5"), Open, MoveNumber(2), San("d5"), Close>>,
      <<MoveNumber(1), San("e4"), Open, MoveNumber(1), San("d4"), San("d5"), Close,
        MoveNumber(2), San("e5")>>,
      <<MoveNumber(1), San("e4"), San("e5"),
        Open, MoveNumber(2), San("d5"), Open, MoveNumber(2), San("c5"), Close,
        MoveNumber(3), San("e4"), Close, MoveNumber(3), San("d4")>>,
      <<MoveNumber(1), San("e4"),
        Open, MoveNumber(1), San("d4"), Open, MoveNumber(1), San("c4"), Close, Close,
        MoveNumber(2), San("e5")>>,
      <<MoveNumber(1), San("e4"), San("e5"),
        Open, MoveNumber(2), San("d5"), MoveNumber(3), San("e4"),
        Open, MoveNumber(3), San("d4"), Close, Close, MoveNumber(3), San("d4")>>,
      <<MoveNumber(1), San("e4"), San("e5"),
        Open, MoveNumber(2), San("d5"), Close, Open, MoveNumber(2), San("c5"), Close,
        MoveNumber(3), San("d4")>>,
      <<MoveNumber(1), San("e4"), San("e5"),
        Open, MoveNumber(2), San("d5"),
        Open, MoveNumber(2), San("c5"), MoveNumber(3), San("d4"), Close,
        MoveNumber(3), San("e4"), Open, MoveNumber(3), San("c4"), Close, Close,
        MoveNumber(3), San("d4")>> }

\* new Chess({pgn: text})
InitPromote ==
    \E text \in PromoteTexts :
        /\ pgn = text
        /\ observers = <<>>
        /\ notified = <<>>
        /\ disableNullMoves = FALSE
        /\ setUpFen = FenStart
        /\ setUpPly = SetUpPlyOf(setUpFen)
        /\ tags = TagsOf(setUpFen)
        /\ \E s \in {ChessLoadPgn(text)} :
               /\ heap = s.heap
               /\ arrays = s.arrays
               /\ moves = s.moves
               /\ currentMove = s.currentMove

\* Games read from a PGN and edited by seek and promoteVariation.
NextPromote == Seek \/ PromoteVariation

SpecPromote == InitPromote /\ [][NextPromote]_vars

\* The places where array a is listed: the mainline (place <<0, 0>>) and the
\* entries of the variations lists of the moves of the tree.
ListedAt(s, a) ==
    { <<m, i>> \in TreeMoves(s) \X (1..Len(s.arrays)) :
        i <= Len(s.heap[m].variations) /\ s.heap[m].variations[i] = a }
    \cup (IF a = s.moves THEN {<<0, 0>>} ELSE {})

\* What C31 says of the state r left by promoteVariation: no move left the
\* tree or came into it, every array of the tree is listed once, and every
\* move is in the one array its `variation` references.
BranchesKept(s, r) ==
    /\ ~r.threw
    /\ TreeMoves(r) = TreeMoves(s)
    /\ \A a \in TreeArrays(r) : Cardinality(ListedAt(r, a)) = 1
    /\ \A m \in TreeMoves(r) : InOneArray(r, m)

NoOp(s, r) ==
    /\ ~r.threw
    /\ r.events = <<>>
    /\ SameTree(s, r)
    /\ r.currentMove = s.currentMove

\* C32: promoteVariation on a null move or on a move for which
\* canPromoteVariation is false is a no-op: the tree and the current move
\* are unchanged, nothing is thrown and no PromoteVariation event is
\* published.
Claim_C32 ==
    \A move \in TreeMoves(Cur) \cup {Null}, intoMainline \in BOOLEAN :
        (move = Null \/ canPromoteVariation(Cur, move, intoMainline) = "false")
            => NoOp(Cur, ChessPromoteVariation(Cur, move, intoMainline))

\* After the promotion of 1... d5 into the mainline, the mainline move d5
\* and a move of its first variation: neither can be promoted without
\* intoMainline.
Witness_C32 ==
    /\ \E move \in Range(arrays[moves]) :
           /\ heap[move].san = "d5"
           /\ heap[move].variations # <<>>
           /\ canPromoteVariation(Cur, move, FALSE) = "false"
           /\ \E first \in Range(arrays[heap[move].variations[1]]) :
                  /\ canPromoteVariation(Cur, first, FALSE) = "false"
                  /\ canPromoteVariation(Cur, first, TRUE) = "true"

----------------------------------------------------------------------------
(* what a handler sees                                                     *)

\* A handler runs for the event: an observer is subscribed to its type.
HandlerRuns(e) == \E k \in 1..Len(observers) : e.type \in observers[k].types

\* What C33 says of a call that left the state r: each handler that ran for
\* one of its events found the current move the call returns with, null or
\* a move of the tree.  The tree is written before the first event of a
\* call is published, so it is the tree of r that the handler finds.
Settled(r) ==
    \A i \in 1..Len(r.events) :
        HandlerRuns(r.events[i])
            => /\ r.seen[i] = r.currentMove
               /\ r.seen[i] = Null \/ r.seen[i] \in TreeMoves(r)

\* C33: when a handler runs for an event published during move(), seek() or
\* delete(), currentMove() is already the value it has when the call
\* returns, and it is null or a move that is still in the tree.
Claim_C33 ==
    /\ \A move \in TreeMoves(Cur) \cup {Null} : Settled(seek(Cur, move))
    /\ \A move \in TreeMoves(Cur) : Settled(ChessDelete(Cur, move))
    /\ \A candidate \in Candidates, o \in MoveOptions :
           Settled(MoveWith(Cur, candidate, currentMove, o))

----------------------------------------------------------------------------
(* isDescendant                                                            *)

\* C34: isDescendant(parent, move) is true exactly when move is parent or
\* parent lies on the chain of previous pointers that starts at move; it is
\* false for a null move and for a move of a side line that branches off
\* before parent, whatever its ply.
Claim_C34 ==
    \A parent \in TreeMoves(Cur), move \in TreeMoves(Cur) \cup {Null} :
        isDescendant(Cur, parent, move)
            = IF parent \in PreviousChain(Cur, move) THEN "true" ELSE "false"

\* C36: delete(move) leaves the current move as it is when the current move
\* is null, or is neither move nor a descendant of move.
Claim_C36 ==
    \A move \in TreeMoves(Cur) :
        move \notin PreviousChain(Cur, currentMove)
            => /\ ~ChessDelete(Cur, move).threw
               /\ ChessDelete(Cur, move).currentMove = currentMove

----------------------------------------------------------------------------
(* the passes of promoteVariation(move, true)                              *)

\* The nesting depth of array a among the moves `tree`: 0 for the mainline,
\* one more than the depth of the line of the move that lists a among its
\* variations; Len(s.arrays) + 1, more than any depth, for an array that
\* hangs on no line of the mainline.
RECURSIVE DepthOf(_, _, _, _)
DepthOf(s, tree, a, fuel) ==
    IF a = s.moves THEN 0
    ELSE LET owners == { m \in tree : a \in Range(s.heap[m].variations) }
             above == { DepthOf(s, tree, s.heap[m].variation, fuel - 1) : m \in owners }
         IN  IF fuel = 0 \/ owners = {} THEN Len(s.arrays) + 1
             ELSE Min(Len(s.arrays) + 1,
                      1 + CHOOSE d \in above : \A e \in above : d <= e)

\* The nesting depth of the line that lists move.
Depth(s, move) == DepthOf(s, TreeMoves(s), s.heap[move].variation, Len(s.arrays))

\* The do-while loop of promoteVariation(move, true), pass by pass (lines
\* 1147-1193): how it ends ("stop" by its condition, "break" at line 1155,
\* "throw" by a TypeError, "diverge" when it is still going after `fuel`
\* passes), whether every pass made the line of move less deep, and the
\* state it leaves.
RECURSIVE PromotePasses(_, _, _, _, _)
PromotePasses(s, move, variantRoot, variantParent, fuel) ==
    IF VariantIndex(s, variantParent, variantRoot) < 0
    THEN [end |-> "break", shrinks |-> TRUE, s |-> s]
    ELSE LET r == PromoteStep(s, move, TRUE, variantRoot, variantParent,
                              VariantIndex(s, variantParent, variantRoot))
             again == PromoteAgain(r, TRUE, NextVariantRoot(r, variantRoot))
         IN  IF r.threw \/ again = "throw"
             THEN [end |-> "throw", shrinks |-> TRUE, s |-> r]
             ELSE IF again = "stop"
             THEN [end |-> "stop", shrinks |-> Depth(r, move) < Depth(s, move), s |-> r]
             ELSE IF fuel = 0
             THEN [end |-> "diverge", shrinks |-> Depth(r, move) < Depth(s, move), s |-> r]
             ELSE LET rest == PromotePasses(r, move, NextVariantRoot(r, variantRoot),
                                            getVariantParent(r, NextVariantRoot(r, variantRoot)),
                                            fuel - 1)
                  IN  [rest EXCEPT !.shrinks = @ /\ Depth(r, move) < Depth(s, move)]

\* promoteVariation(move, true) for a move that can be promoted.
PromoteIntoMainline(s, move) ==
    PromotePasses(s, move, s.arrays[s.heap[move].variation][1], getVariantParent(s, move),
                  2 * (Len(s.heap) + Len(s.arrays)))

\* C35: promoteVariation(move, true) terminates on every reachable tree:
\* each pass of its loop makes the line that lists move less deep, and the
\* loop ends when that line is the mainline.
Claim_C35 ==
    \A move \in TreeMoves(Cur) :
        canPromoteVariation(Cur, move, TRUE) = "true"
            => /\ PromoteIntoMainline(Cur, move).end # "diverge"
               /\ PromoteIntoMainline(Cur, move).shrinks
               /\ PromoteIntoMainline(Cur, move).end \in {"stop", "break"}
                      => isInMainline(PromoteIntoMainline(Cur, move).s, move)

----------------------------------------------------------------------------
(* what delete and promoteVariation leave alone                            *)

\* What C37 says of the state r left by delete(move): the moves of the tree
\* that are neither move nor after it on a chain of previous pointers are
\* still in the tree.
OthersKept(s, r, move) ==
    /\ ~r.threw
    /\ \A m \in TreeMoves(s) : move \notin PreviousChain(s, m) => m \in TreeMoves(r)

\* C37: delete(move) removes from the tree only move and its descendants:
\* every other move that was reachable before the call is reachable after
\* it, the variations of the move promoted into the vacated slot and the
\* variations of a deleted first mainline move included.
Claim_C37 ==
    \A move \in TreeMoves(Cur) : OthersKept(Cur, ChessDelete(Cur, move), move)


\* The call left the current move and the previous pointer and ply of every
\* move as they were.
PointersKept(s, r) ==
    /\ r.currentMove = s.currentMove
    /\ Len(r.heap) = Len(s.heap)
    /\ \A m \in 1..Len(s.heap) :
           /\ r.heap[m].previous = s.heap[m].previous
           /\ r.heap[m].ply = s.heap[m].ply

\* C38: promoteVariation changes only which line lists a move and the order
\* of the lines: the current move, the set of moves of the tree and every
\* move's previous pointer and ply are the same after the call as before,
\* for both values of intoMainline.
Claim_C38 ==
    \A move \in TreeMoves(Cur) \cup {Null}, intoMainline \in BOOLEAN :
        LET r == ChessPromoteVariation(Cur, move, intoMainline)
        IN  /\ PointersKept(Cur, r)
            /\ TreeMoves(r) = TreeMoves(Cur)


----------------------------------------------------------------------------
(* the current move                                                        *)

TagOr(FEN, fenText) == IF FEN # {} THEN CHOOSE f \in FEN : TRUE ELSE fenText

\* new Pgn({pgn, fen}): pgnText holds the tags the parser read from the
\* text (no element when there is no text). Returns the header's tags and
\* the set-up FEN the history is built from.
Pgn(pgnText, fenText) ==
    IF pgnText = {}
    THEN LET t == TagsOf(fenText)
         IN  [tags |-> t, setUpFen |-> TagOr(t.FEN, fenText)]
    ELSE LET parsed == CHOOSE t \in pgnText : TRUE
             t == IF fenText # FenStart THEN Tags("1", {fenText}) ELSE parsed
         IN  [tags |-> t, setUpFen |-> TagOr(t.FEN, fenText)]

\* chess.setUpFen(): the FEN tag (or the start position) when the header
\* has a truthy SetUp tag, else the start position.
ChessSetUpFen(t) ==
    IF t.SetUp # "" THEN TagOr(t.FEN, FenStart) ELSE FenStart

\* chess.fen(move): the move's FEN, or setUpFen() without a move.
ChessFen(s, move, t) ==
    IF move # Null THEN s.heap[move].fen ELSE ChessSetUpFen(t)

\* The FEN tags of the headers read below.
HeaderFens == {FenStart, SetUpFen("b", 1, FALSE, FALSE), SetUpFen("w", 2, FALSE, FALSE)}

\* The headers of the PGN texts: each combination of a SetUp tag (absent,
\* "0" or "1") and a FEN tag (absent or one of HeaderFens).
Headers ==
    { Tags(SetUp, FEN) : SetUp \in {"", "0", "1"},
                         FEN \in {{}} \cup { {f} : f \in HeaderFens } }

\* The ways of constructing a game: new Chess({fen}) and new Chess({pgn})
\* with a PGN of tags only.
Constructions ==
    { [pgn |-> {}, fen |-> f] : f \in HeaderFens } \cup
    { [pgn |-> {h}, fen |-> FenStart] : h \in Headers }

\* new Chess({fen | pgn, disableNullMoves}): load(fen) or loadPgn(pgn) of
\* a text without moves, so that there is no current move.
InitHeader ==
    /\ pgn = <<>>
    /\ observers = <<>>
    /\ notified = <<>>
    /\ disableNullMoves \in BOOLEAN
    /\ \E c \in Constructions :
        LET p == Pgn(c.pgn, c.fen)
        IN  /\ setUpFen = p.setUpFen
            /\ tags = p.tags
    /\ setUpPly = SetUpPlyOf(setUpFen)
    /\ heap = NewChess.heap
    /\ arrays = NewChess.arrays
    /\ moves = NewChess.moves
    /\ currentMove = NewChess.currentMove

NextHeader == MoveOrNullMove \/ Seek

SpecHeader == InitHeader /\ [][NextHeader]_vars

\* C40: the set-up position the facade reports, by setUpFen() and by fen()
\* when there is no current move, is the set-up position the history was
\* built from, for a game constructed from a FEN or from a PGN with any
\* combination of FEN and SetUp tags.
Claim_C40 ==
    /\ ChessSetUpFen(tags) = setUpFen
    /\ currentMove = Null => ChessFen(Cur, currentMove, tags) = setUpFen

====
